---- MODULE Spec2Model ----
(***************************************************************************)
(* A model of the ISA engine (src/engine): the 32-bit helpers, the         *)
(* segmented memory, the register file, the textual instruction decoder,   *)
(* the fetch-decode-execute step with its before/after hooks, the syscall  *)
(* dispatcher and the run() loop with breakpoint gating, as coroutines of  *)
(* one cooperative event loop.                                             *)
(*                                                                         *)
(* Scaling.  TLC's integers are 32-bit signed, so the machine word cannot  *)
(* be 32 bits wide here.  A word is still four little-endian bytes, but a  *)
(* byte carries BYTE_BITS = 7 bits (enough for the ASCII program text), so *)
(* a word has 28 bits and UINT32_MAX = 2^28 - 1.  Segment start addresses  *)
(* are the source's; the stack still ends at the top of the address space; *)
(* segment sizes are bounds of the model.                                  *)
(***************************************************************************)
EXTENDS Integers, Sequences, FiniteSets, TLC

(***************************************************************************)
(* Bounds of the model                                                     *)
(***************************************************************************)
CodeSize == 120
BssSize == 8
StackSize == 24
MaxBreakpoints == 2

(***************************************************************************)
(* engine/util.py                                                          *)
(***************************************************************************)
BYTE_BITS == 7
BYTE_BASE == 2 ^ BYTE_BITS
UINT32_MAX == (2 ^ (4 * BYTE_BITS)) - 1
INT32_MAX == (2 ^ (4 * BYTE_BITS - 1)) - 1

Min(a, b) == IF a < b THEN a ELSE b
Max(a, b) == IF a > b THEN a ELSE b

\* a value under a name: K applied to x
With(x, K(_)) == K(x)

\* i & UINT32_MAX on a Python integer of either sign
to_u32(i) == i % (UINT32_MAX + 1)

\* (u & INT32_MAX) - (u & sign_mask), for u in [0, UINT32_MAX]
uint32_to_int32(u) == (u % (INT32_MAX + 1)) - (((u \div (INT32_MAX + 1)) % 2) * (INT32_MAX + 1))

\* u.to_bytes(4, "little"); Python raises OverflowError outside [0, UINT32_MAX]
uint32_to_bytes_ok(u) == u >= 0 /\ u <= UINT32_MAX
uint32_to_bytes(u) == [i \in 1..4 |-> (u \div (BYTE_BASE ^ (i - 1))) % BYTE_BASE]

\* int.from_bytes(b, "little"), for a byte string of any length
RECURSIVE bytes_to_uint32(_)
bytes_to_uint32(b) ==
    IF b = <<>> THEN 0 ELSE Head(b) + BYTE_BASE * bytes_to_uint32(Tail(b))

\* add32 that keeps its first operand
add32_first(u1, u2) == u1

\* bitwise operators on non-negative integers
RECURSIVE BitOp(_, _, _)
BitOp(op, a, b) ==
    IF a = 0 /\ b = 0 THEN 0
    ELSE LET x == a % 2
             y == b % 2
             bit == CASE op = "and" -> IF x = 1 /\ y = 1 THEN 1 ELSE 0
                      [] op = "or" -> IF x = 1 \/ y = 1 THEN 1 ELSE 0
                      [] op = "xor" -> IF x # y THEN 1 ELSE 0
         IN  bit + 2 * BitOp(op, a \div 2, b \div 2)

not32(u) == BitOp("xor", u, UINT32_MAX)
xor32(u1, u2) == BitOp("xor", u1, u2)
and32(u1, u2) == BitOp("and", u1, u2)
or32(u1, u2) == BitOp("or", u1, u2)
add32(u1, u2) == to_u32(u1 + u2)
sub32(u1, u2) == to_u32(u1 - u2)

eq32(u1, u2) == u1 = u2
neq32(u1, u2) == u1 # u2
gt32(u1, u2) == uint32_to_int32(u1) > uint32_to_int32(u2)
gtu32(u1, u2) == u1 > u2
gte32(u1, u2) == uint32_to_int32(u1) >= uint32_to_int32(u2)
gteu32(u1, u2) == u1 >= u2
lt32_unsigned(u1, u2) == u1 < u2
lt32(u1, u2) == uint32_to_int32(u1) < uint32_to_int32(u2)
ltu32_signed(u1, u2) == uint32_to_int32(u1) < uint32_to_int32(u2)
ltu32(u1, u2) == u1 < u2
lte32(u1, u2) == uint32_to_int32(u1) <= uint32_to_int32(u2)
lteu32(u1, u2) == u1 <= u2

\* Python's // and % (floor division; the remainder takes the divisor's sign), b # 0
PyFloorDiv(a, b) == IF b > 0 THEN a \div b ELSE (0 - a) \div (0 - b)
PyMod(a, b) == a - b * PyFloorDiv(a, b)

\* the number of bits of a word (the literal 32 of rol32 and ror32)
WORD_BITS == 4 * BYTE_BITS

\* (u1 << u2) & UINT32_MAX, computed as (u1 mod 2^(W-u2)) * 2^u2 to stay inside
\* TLC's integers
sal32(u1, u2) ==
    IF u2 >= WORD_BITS THEN 0 ELSE (u1 % (2 ^ (WORD_BITS - u2))) * (2 ^ u2)
shl32(u1, u2) ==
    IF u2 >= WORD_BITS THEN 0 ELSE (u1 % (2 ^ (WORD_BITS - u2))) * (2 ^ u2)
\* u1 >> u2, for u1 in [0, UINT32_MAX]
shr32(u1, u2) == IF u2 >= WORD_BITS THEN 0 ELSE u1 \div (2 ^ u2)
\* sar32 with its count reduced to the bits of a word
sar32_reduced(u1, u2) == to_u32(uint32_to_int32(u1) \div (2 ^ (u2 % WORD_BITS)))
\* (uint32_to_int32(u1) >> u2) & UINT32_MAX
sar32(u1, u2) ==
    LET s == uint32_to_int32(u1)
    IN  IF u2 >= WORD_BITS THEN to_u32(IF s < 0 THEN 0 - 1 ELSE 0)
        ELSE to_u32(s \div (2 ^ u2))
rol32(u1, u2) ==
    LET c == IF u2 >= WORD_BITS THEN u2 % WORD_BITS ELSE u2
    IN  IF c = 0 THEN u1 ELSE shl32(u1, c) + shr32(u1, WORD_BITS - c)
ror32(u1, u2) ==
    LET c == IF u2 >= WORD_BITS THEN u2 % WORD_BITS ELSE u2
    IN  IF c = 0 THEN u1 ELSE shr32(u1, c) + shl32(u1, WORD_BITS - c)

\* mul32 without its higher word
mul32_low(u1, u2) == <<to_u32(u1 * u2), 0>>

\* ((u1 * u2) & UINT32_MAX, (u1 * u2) // (UINT32_MAX + 1))
mul32(u1, u2) == <<to_u32(u1 * u2), (u1 * u2) \div (UINT32_MAX + 1)>>
\* ((u1 // u2) & UINT32_MAX, u1 % u2); the caller handles ZeroDivisionError (u2 = 0)
div32(u1, u2) == <<to_u32(PyFloorDiv(u1, u2)), PyMod(u1, u2)>>

\* range_collide without its second test
range_collide_first(s1, e1, s2, e2) == s1 >= s2 /\ s1 < e2

\* (s1 >= s2 and s1 < e2) or (s2 >= s1 and s2 < e1)
range_collide(s1, e1, s2, e2) == (s1 >= s2 /\ s1 < e2) \/ (s2 >= s1 /\ s2 < e1)

(***************************************************************************)
(* Byte strings.  A byte string is a sequence of byte values; PRINTABLE    *)
(* lists the characters of codes 32..126, so that the text constants of    *)
(* the source can be written as characters (the lexer takes no backquote   *)
(* inside a string, so code 96 has a name instead).                        *)
(***************************************************************************)
PRINTABLE == <<
    " ", "!", "\"", "#", "$", "%", "&", "'", "(", ")", "*", "+", ",", "-", ".", "/",
    "0", "1", "2", "3", "4", "5", "6", "7", "8", "9", ":", ";", "<", "=", ">", "?",
    "@", "A", "B", "C", "D", "E", "F", "G", "H", "I", "J", "K", "L", "M", "N", "O",
    "P", "Q", "R", "S", "T", "U", "V", "W", "X", "Y", "Z", "[", "\\", "]", "^", "_",
    "(backquote)", "a", "b", "c", "d", "e", "f", "g", "h", "i", "j", "k", "l", "m", "n", "o",
    "p", "q", "r", "s", "t", "u", "v", "w", "x", "y", "z", "{", "|", "}", "~" >>

\* the byte value of a character
Ord == [c \in {PRINTABLE[i] : i \in 1..Len(PRINTABLE)} \cup {"\n", "\t"} |->
          IF c = "\n" THEN 10
          ELSE IF c = "\t" THEN 9
          ELSE 31 + (CHOOSE i \in 1..Len(PRINTABLE) : PRINTABLE[i] = c)]

\* the character of a byte value; the bytes outside 32..126 occur in no name
Chr(b) == IF b >= 32 /\ b <= 126 THEN PRINTABLE[b - 31] ELSE "\t"

\* a byte string as a TLA+ string, to compare it with the names of const.py
RECURSIVE Str(_)
Str(s) ==
    IF s = <<>> THEN ""
    ELSE IF Len(s) = 1 THEN Chr(s[1])
    ELSE Str(SubSeq(s, 1, Len(s) \div 2)) \o Str(SubSeq(s, Len(s) \div 2 + 1, Len(s)))

\* the bytes of a text given as a sequence of characters
Bytes(text) == [i \in 1..Len(text) |-> Ord[text[i]]]

\* bytes.find(c, from): the first 1-based index >= from holding byte c, else 0
IndexOf(s, c, from) ==
    IF \A i \in from..Len(s) : s[i] # c THEN 0
    ELSE CHOOSE i \in from..Len(s) : s[i] = c /\ \A j \in from..(i - 1) : s[j] # c

\* bytes.partition(c): <<head, tail>>; the tail is empty when c does not occur
Partition(s, c) ==
    LET i == IndexOf(s, c, 1)
    IN  IF i = 0 THEN <<s, <<>>>>
        ELSE <<SubSeq(s, 1, i - 1), SubSeq(s, i + 1, Len(s))>>

\* the ASCII whitespace that bytes.strip() and int() remove
IsSpace(b) == b \in {9, 10, 11, 12, 13, 32}

RECURSIVE LStrip(_)
LStrip(s) == IF s # <<>> /\ IsSpace(Head(s)) THEN LStrip(Tail(s)) ELSE s
RECURSIVE RStrip(_)
RStrip(s) ==
    IF s # <<>> /\ IsSpace(s[Len(s)]) THEN RStrip(SubSeq(s, 1, Len(s) - 1)) ELSE s
Strip(s) == RStrip(LStrip(s))

\* bytes.split(c)
RECURSIVE Split(_, _)
Split(s, c) ==
    LET i == IndexOf(s, c, 1)
    IN  IF i = 0 THEN <<s>>
        ELSE <<SubSeq(s, 1, i - 1)>> \o Split(SubSeq(s, i + 1, Len(s)), c)

(***************************************************************************)
(* Python's int(text) and int(text, 0) on a byte string: surrounding       *)
(* whitespace, an optional sign, digits with single underscores between    *)
(* them; with base 0 a prefix 0x, 0o or 0b selects the base and a decimal  *)
(* literal other than zero has no leading zero.  [ok, val]; not ok is      *)
(* Python's ValueError.  Bytes are written by their codes: 48..57 are      *)
(* "0".."9", 97..102 "a".."f", 65..70 "A".."F", 95 "_", 43 "+", 45 "-".    *)
(***************************************************************************)
DigitValue(b) ==
    IF b >= 48 /\ b <= 57 THEN b - 48
    ELSE IF b >= 97 /\ b <= 102 THEN 10 + b - 97
    ELSE IF b >= 65 /\ b <= 70 THEN 10 + b - 65
    ELSE 99

\* digits of the base, single underscores only between digits (or after a prefix)
DigitsOk(d, base, prefixed) ==
    /\ d # <<>>
    /\ d[Len(d)] # 95
    /\ (d[1] # 95 \/ prefixed)
    /\ \A i \in 1..Len(d) :
          \/ DigitValue(d[i]) < base
          \/ d[i] = 95 /\ (i = Len(d) \/ d[i + 1] # 95)
    /\ \E i \in 1..Len(d) : d[i] # 95

RECURSIVE DigitsValue(_, _, _)
DigitsValue(d, base, acc) ==
    IF d = <<>> THEN acc
    ELSE IF Head(d) = 95 THEN DigitsValue(Tail(d), base, acc)
    ELSE DigitsValue(Tail(d), base, acc * base + DigitValue(Head(d)))

\* the base a prefix 0x / 0o / 0b announces, 0 when there is none
IntPrefix(body) ==
    IF Len(body) >= 2 /\ body[1] = 48
    THEN (IF body[2] \in {120, 88} THEN 16
          ELSE IF body[2] \in {111, 79} THEN 8
          ELSE IF body[2] \in {98, 66} THEN 2
          ELSE 0)
    ELSE 0

\* the digits d of a literal in the given base, negated when neg
ParseDigits(d, base, prefixed, neg) ==
    IF DigitsOk(d, base, prefixed)
    THEN [ok |-> TRUE, val |-> (IF neg THEN 0 - 1 ELSE 1) * DigitsValue(d, base, 0)]
    ELSE [ok |-> FALSE, val |-> 0]

\* the literal after its sign; pfx is the base its prefix announces (base 0 only)
ParseBody(body, pfx, base0, neg) ==
    IF base0 /\ pfx = 0 /\ body # <<>> /\ body[1] = 48
             /\ \E i \in 1..Len(body) : body[i] \notin {48, 95}
    THEN [ok |-> FALSE, val |-> 0]
    ELSE ParseDigits(IF pfx # 0 THEN SubSeq(body, 3, Len(body)) ELSE body,
                     IF pfx # 0 THEN pfx ELSE 10, pfx # 0, neg)

\* the stripped literal t
ParseSigned(t, signed, base0) ==
    ParseBody(IF signed THEN Tail(t) ELSE t,
              IF base0 THEN IntPrefix(IF signed THEN Tail(t) ELSE t) ELSE 0,
              base0, signed /\ t[1] = 45)

ParseTrimmed(t, base0) == ParseSigned(t, t # <<>> /\ t[1] \in {43, 45}, base0)

ParseInt(text, base0) == ParseTrimmed(Strip(text), base0)

(***************************************************************************)
(* engine/const.py                                                         *)
(***************************************************************************)
PROGRAM_COUNTER_REG_NAME == "PC"
BASE_POINTER_REG_NAME == "FP"
STACK_POINTER_REG_NAME == "SP"

MNEMONIC ==
    {"JMP", "JZ", "JNZ", "MOV", "NOT", "AND", "OR", "XOR", "SAL", "SAR", "SHL",
     "SHR", "ROL", "ROR", "ADD", "SUB", "MULu", "MUL", "DIVu", "DIV", "EQ", "NEQ",
     "GT", "GTu", "GTE", "GTEu", "LT", "LTu", "LTE", "LTEu", "CALL", "RET",
     "SYSCALL", "PUSH", "POP", "SWAP", "COPY", "NOP"}

REGISTERS ==
    {"R1", "R2", "R3", "R4", "R5", "R6", "R7", "R8",
     PROGRAM_COUNTER_REG_NAME, BASE_POINTER_REG_NAME, STACK_POINTER_REG_NAME}

INST_DELIMITER == 10
INST_MNEMONIC_SEPARATOR == 32
INST_OPERANDS_SEPARATOR == 44

FILE_SIZE_LIMIT == 65536

\* SegmentPermission
READ == 4
WRITE == 2
EXEC == 1

\* SEGMENTS: the start addresses of the source; the stack ends at the top of the
\* address space, as 0xFFF00000 + 0x100000 does; the sizes are the model's bounds
CODE_START == 4194304
BSS_START == 5242880
SEGMENT_NAMES == <<"code", "bss", "stack">>
SEGMENTS ==
    [code |-> [start |-> CODE_START, size |-> CodeSize, permission |-> READ + EXEC],
     bss |-> [start |-> BSS_START, size |-> BssSize, permission |-> READ + WRITE],
     stack |-> [start |-> UINT32_MAX + 1 - StackSize, size |-> StackSize,
                permission |-> READ + WRITE]]

(***************************************************************************)
(* engine/error.py is not among the sources: the error codes are the       *)
(* names the engine raises.  "OK" stands for no exception; an exception    *)
(* that is not an ISAError goes by the name of its Python class.           *)
(***************************************************************************)
ISAErrorCodes ==
    {"BAD_CONFIG", "BAD_ARGS", "BAD_INST", "SEG_FAULT", "ALLOC_FAIL",
     "INVALID_SOURCE_FILE", "UNKNOWN"}

HostErrors ==
    {"ValueError", "IndexError", "OverflowError", "ZeroDivisionError", "OSError",
     "KeyError", "HandlerError"}

(***************************************************************************)
(* engine/operand.py and engine/instruction.py                             *)
(***************************************************************************)
\* no instruction
NoInst == [err |-> "OK", mnemonic |-> "", operands |-> <<>>, len |-> 0]

\* Operand(expression): [err, type, data]; 91 and 93 are "[" and "]"
Operand(expression) ==
    IF Str(expression) \in REGISTERS
    THEN [err |-> "OK", type |-> "REGISTER", data |-> expression]
    ELSE IF /\ Len(expression) >= 1
            /\ expression[1] = 91
            /\ expression[Len(expression)] = 93
    THEN [err |-> "OK", type |-> "ADDRESS",
          data |-> SubSeq(expression, 2, Len(expression) - 1)]
    ELSE IF ParseInt(expression, FALSE).ok \/ ParseInt(expression, TRUE).ok
    THEN [err |-> "OK", type |-> "IMMEDIATE", data |-> expression]
    ELSE [err |-> "BAD_INST", type |-> "", data |-> <<>>]

\* the operands of an instruction, from the text after the mnemonic
Operands(text) ==
    IF text = <<>> THEN <<>>
    ELSE With(Split(text, INST_OPERANDS_SEPARATOR), LAMBDA pieces :
              [i \in 1..Len(pieces) |-> Operand(Strip(pieces[i]))])

\* Instruction.validate, after the operands were built
validate(mnemonic, operands, len) ==
    IF \E i \in 1..Len(operands) : operands[i].err # "OK"
    THEN [err |-> "BAD_INST", mnemonic |-> "", operands |-> <<>>, len |-> len]
    ELSE IF mnemonic \notin MNEMONIC
    THEN [err |-> "BAD_INST", mnemonic |-> "", operands |-> <<>>, len |-> len]
    ELSE [err |-> "OK", mnemonic |-> mnemonic, operands |-> operands, len |-> len]

\* Instruction(line): [err, mnemonic, operands, len]; 59 is ";"
Instruction(line) ==
    With(Strip(Partition(line, 59)[1]), LAMBDA text :
         IF text = <<>>
         THEN [err |-> "OK", mnemonic |-> "NOP", operands |-> <<>>, len |-> Len(line) + 1]
         ELSE With(Partition(text, INST_MNEMONIC_SEPARATOR), LAMBDA parts :
                   validate(Str(parts[1]), Operands(parts[2]), Len(line) + 1)))

(***************************************************************************)
(* engine/segment.py                                                       *)
(***************************************************************************)
\* SegmentPermission.readable / writable / executable
readable(seg) == and32(seg.permission, READ) = READ
writable_always(seg) == TRUE
writable(seg) == and32(seg.permission, WRITE) = WRITE
executable(seg) == and32(seg.permission, EXEC) = EXEC

\* Segment(name, start, size, init_data, permission_flag)
Segment(name, start, size, init_data, permission_flag) ==
    [name |-> name, start |-> start, size |-> size, end |-> start + size,
     permission |-> permission_flag,
     mem |-> [i \in 1..size |-> IF i <= Len(init_data) THEN init_data[i] ELSE 0]]

\* the bounds Python gives slice(start, stop) on a buffer of n bytes:
\* <<lo, hi>>, the 0-based bytes lo .. hi-1
PySlice(n, start, stop) ==
    LET norm(i) == IF i < 0 THEN Max(i + n, 0) ELSE Min(i, n)
        lo == norm(start)
        hi == norm(stop)
    IN  <<lo, Max(lo, hi)>>

\* Segment.__getitem__(slice(start, stop)), with absolute addresses: [err, val]
SegmentGet(seg, start, stop) ==
    IF ~readable(seg) THEN [err |-> "SEG_FAULT", val |-> <<>>]
    ELSE With(PySlice(seg.size, start - seg.start, stop - seg.start), LAMBDA r :
              [err |-> "OK", val |-> SubSeq(seg.mem, r[1] + 1, r[2])])

\* Segment.__setitem__ without its test of the WRITE bit
SegmentSetUnchecked(seg, start, stop, value) ==
    With(PySlice(seg.size, start - seg.start, stop - seg.start), LAMBDA r :
         IF r[2] - r[1] # Len(value) THEN [err |-> "ValueError", seg |-> seg]
         ELSE [err |-> "OK",
               seg |-> [seg EXCEPT !.mem =
                          [i \in 1..seg.size |->
                             IF i > r[1] /\ i <= r[2] THEN value[i - r[1]]
                             ELSE seg.mem[i]]]])

\* Segment.__setitem__(slice(start, stop), value): [err, seg]; a memoryview
\* cannot change its length, so a value of another length is a ValueError
SegmentSet(seg, start, stop, value) ==
    IF ~writable(seg) THEN [err |-> "SEG_FAULT", seg |-> seg]
    ELSE With(PySlice(seg.size, start - seg.start, stop - seg.start), LAMBDA r :
              IF r[2] - r[1] # Len(value) THEN [err |-> "ValueError", seg |-> seg]
              ELSE [err |-> "OK",
                    seg |-> [seg EXCEPT !.mem =
                               [i \in 1..seg.size |->
                                  IF i > r[1] /\ i <= r[2] THEN value[i - r[1]]
                                  ELSE seg.mem[i]]]])

\* Segment.find(sub, start) for a one-byte sub: the absolute address of the
\* first occurrence at or after start, or (-1) + seg.start when there is none
SegmentFind(seg, sub, start) ==
    (IndexOf(seg.mem, sub, PySlice(seg.size, start - seg.start, seg.size)[1] + 1) - 1)
        + seg.start

(***************************************************************************)
(* engine/memory_manager.py.  segments is the dict of the MemoryManager,   *)
(* a sequence of Segment records in insertion order.                       *)
(***************************************************************************)
\* find_segment_by_addr taking the end of a segment for one of its addresses
find_segment_by_addr_closed(segments, addr) ==
    IF \E i \in 1..Len(segments) : addr >= segments[i].start /\ addr <= segments[i].end
    THEN CHOOSE i \in 1..Len(segments) :
            /\ addr >= segments[i].start /\ addr <= segments[i].end
            /\ \A j \in 1..(i - 1) :
                  ~(addr >= segments[j].start /\ addr <= segments[j].end)
    ELSE 0

\* the index of the first segment owning addr, 0 when none does (SEG_FAULT)
find_segment_by_addr(segments, addr) ==
    IF \E i \in 1..Len(segments) : addr >= segments[i].start /\ addr < segments[i].end
    THEN CHOOSE i \in 1..Len(segments) :
            /\ addr >= segments[i].start /\ addr < segments[i].end
            /\ \A j \in 1..(i - 1) : ~(addr >= segments[j].start /\ addr < segments[j].end)
    ELSE 0

\* MemoryManager.__getitem__(slice(start, stop)): [err, val]
MemoryGet(segments, start, stop) ==
    With(find_segment_by_addr(segments, start), LAMBDA i :
         IF i = 0 THEN [err |-> "SEG_FAULT", val |-> <<>>]
         ELSE SegmentGet(segments[i], start, stop))

\* MemoryManager.__setitem__(slice(start, stop), value): [err, segments]
MemorySet(segments, start, stop, value) ==
    With(find_segment_by_addr(segments, start), LAMBDA i :
         IF i = 0 THEN [err |-> "SEG_FAULT", segments |-> segments]
         ELSE With(SegmentSet(segments[i], start, stop, value), LAMBDA r :
                   [err |-> r.err, segments |-> [segments EXCEPT ![i] = r.seg]]))

\* the index of the segment stored under name, 0 when there is none
SegmentNamed(segments, name) ==
    IF \E i \in 1..Len(segments) : segments[i].name = name
    THEN CHOOSE i \in 1..Len(segments) : segments[i].name = name
    ELSE 0

\* self.segments[name] = segment: a new key goes last, an existing key keeps
\* its place and loses its old segment
Store(segments, segment) ==
    IF SegmentNamed(segments, segment.name) = 0 THEN Append(segments, segment)
    ELSE [segments EXCEPT ![SegmentNamed(segments, segment.name)] = segment]

\* MemoryManager.map: [err, segments]; the Segment constructor refuses a
\* permission outside the flag and init_data longer than the segment
map(segments, name, start, size, permission_flag, init_data) ==
    IF \E i \in 1..Len(segments) :
          range_collide(start, start + size, segments[i].start, segments[i].end)
    THEN [err |-> "ALLOC_FAIL", segments |-> segments]
    ELSE IF permission_flag \div 8 # 0
    THEN [err |-> "BAD_ARGS", segments |-> segments]
    ELSE IF Len(init_data) > size
    THEN [err |-> "ValueError", segments |-> segments]
    ELSE [err |-> "OK",
          segments |-> Store(segments,
                             Segment(name, start, size, init_data, permission_flag))]

\* self.segments.pop(name)
Pop(segments, i) ==
    [j \in 1..(Len(segments) - 1) |-> IF j < i THEN segments[j] ELSE segments[j + 1]]

\* MemoryManager.munmap: [err, segments]; isint tells an address (the owner
\* is looked up) from a name
munmap(segments, isint, addr_or_name) ==
    IF isint
    THEN IF find_segment_by_addr(segments, addr_or_name) = 0
         THEN [err |-> "SEG_FAULT", segments |-> segments]
         ELSE [err |-> "OK",
               segments |-> Pop(segments, find_segment_by_addr(segments, addr_or_name))]
    ELSE IF SegmentNamed(segments, addr_or_name) = 0
         THEN [err |-> "KeyError", segments |-> segments]
         ELSE [err |-> "OK",
               segments |-> Pop(segments, SegmentNamed(segments, addr_or_name))]

\* MemoryManager.set32: [err, segments]
set32(segments, addr, value) ==
    IF ~uint32_to_bytes_ok(value)
    THEN [err |-> "OverflowError", segments |-> segments]
    ELSE MemorySet(segments, to_u32(addr), to_u32(addr) + 4, uint32_to_bytes(value))

\* MemoryManager.get32: [err, val]
get32(segments, addr) ==
    With(MemoryGet(segments, to_u32(addr), to_u32(addr) + 4), LAMBDA r :
         [err |-> r.err, val |-> IF r.err = "OK" THEN bytes_to_uint32(r.val) ELSE 0])

\* MemoryManager.get_cstring: [err, val]
get_cstring(segments, addr) ==
    With(find_segment_by_addr(segments, addr), LAMBDA i :
         IF i = 0 THEN [err |-> "SEG_FAULT", val |-> <<>>]
         ELSE With(SegmentFind(segments[i], 0, addr), LAMBDA found :
                   SegmentGet(segments[i], addr,
                              IF found = 0 - 1 THEN segments[i].start + segments[i].size
                              ELSE found)))

(***************************************************************************)
(* engine/register.py.  regs is Registers._regs.                           *)
(***************************************************************************)
\* Registers.get_reg: [err, val]
\* get_reg giving PC like any register
get_reg_any(regs, name) ==
    IF name \notin REGISTERS
    THEN [err |-> "BAD_INST", val |-> 0]
    ELSE [err |-> "OK", val |-> regs[name]]

get_reg(regs, name) ==
    IF name \notin REGISTERS \/ name = PROGRAM_COUNTER_REG_NAME
    THEN [err |-> "BAD_INST", val |-> 0]
    ELSE [err |-> "OK", val |-> regs[name]]

\* Registers.set_reg: [err, regs]
\* set_reg storing the value as it is given
set_reg_unwrapped(regs, name, value) ==
    IF name \notin REGISTERS \/ name = PROGRAM_COUNTER_REG_NAME
    THEN [err |-> "BAD_INST", regs |-> regs]
    ELSE [err |-> "OK", regs |-> [regs EXCEPT ![name] = value]]

set_reg(regs, name, value) ==
    IF name \notin REGISTERS \/ name = PROGRAM_COUNTER_REG_NAME
    THEN [err |-> "BAD_INST", regs |-> regs]
    ELSE [err |-> "OK", regs |-> [regs EXCEPT ![name] = to_u32(value)]]

get_program_counter(regs) == regs[PROGRAM_COUNTER_REG_NAME]
\* set_program_counter leaving PC where it is
set_program_counter_skip(regs, new_pc) == regs

set_program_counter(regs, new_pc) ==
    [regs EXCEPT ![PROGRAM_COUNTER_REG_NAME] = to_u32(new_pc)]

\* the split of re.search(b"(.*)([+*-])(.*)", data): the last operator
\* character of data (the first group is greedy), 0 when there is none;
\* 43, 42 and 45 are "+", "*" and "-"
RECURSIVE LastOperator(_, _)
LastOperator(data, i) ==
    IF i = 0 THEN 0
    ELSE IF data[i] \in {43, 42, 45} THEN i
    ELSE LastOperator(data, i - 1)

\* Registers.eval, case ADDRESS: reg is get_reg(reg.strip()), imm is
\* int(imm, 0), op the operator between them (0 when the data is a register
\* alone)
AddressValue(op, reg, imm) ==
    IF reg.err # "OK" THEN [err |-> reg.err, val |-> 0, deref |-> TRUE]
    ELSE IF ~imm.ok THEN [err |-> "ValueError", val |-> 0, deref |-> TRUE]
    ELSE [err |-> "OK", deref |-> TRUE,
          val |-> CASE op = 43 -> reg.val + imm.val
                    [] op = 45 -> reg.val - imm.val
                    [] op = 42 -> reg.val * imm.val
                    [] OTHER -> reg.val]

\* Registers.eval(operand): [err, val, deref]
RegistersEval(regs, operand) ==
    CASE operand.type = "REGISTER" ->
           With(get_reg(regs, Str(operand.data)), LAMBDA r :
                [err |-> r.err, val |-> r.val, deref |-> FALSE])
      [] operand.type = "ADDRESS" ->
           With(LastOperator(operand.data, Len(operand.data)), LAMBDA k :
                AddressValue(IF k = 0 THEN 0 ELSE operand.data[k],
                             get_reg(regs, Str(Strip(SubSeq(operand.data, 1,
                                                IF k = 0 THEN Len(operand.data)
                                                ELSE k - 1)))),
                             IF k = 0 THEN [ok |-> TRUE, val |-> 0]
                             ELSE ParseInt(SubSeq(operand.data, k + 1,
                                                  Len(operand.data)), TRUE)))
      [] operand.type = "IMMEDIATE" ->
           With(ParseInt(operand.data, TRUE), LAMBDA v :
                IF v.ok THEN [err |-> "OK", val |-> to_u32(v.val), deref |-> FALSE]
                ELSE [err |-> "ValueError", val |-> 0, deref |-> FALSE])
      [] OTHER -> [err |-> "BAD_INST", val |-> 0, deref |-> FALSE]

(***************************************************************************)
(* engine/engine.py: the synchronous helpers.  e is the Engine object, a   *)
(* record of its fields: state, exit_code, regs (_registers._regs),        *)
(* segments (_memory.segments), files (_files.vfiles), breakpoints,        *)
(* event_continue.  A helper returns [err, e, val]: the exception raised   *)
(* ("OK" for none), the engine as the helper leaves it (with the writes    *)
(* made before the exception) and the value returned.                      *)
(***************************************************************************)
Ret(err, e, val) == [err |-> err, e |-> e, val |-> val]

\* a call whose result r is used by what follows, K, unless it raised
Then(r, K(_)) == IF r.err # "OK" THEN Ret(r.err, r.e, 0) ELSE K(r)

\* a memory read or write made for engine e: its result as a helper result
Read(e, m) == Ret(m.err, e, IF m.err = "OK" THEN m.val ELSE 0)
Written(e, w) == Ret(w.err, [e EXCEPT !.segments = w.segments], 0)

\* Engine.eval
Eval(e, operand) ==
    With(RegistersEval(e.regs, operand), LAMBDA r :
         IF r.err # "OK" THEN Ret(r.err, e, 0)
         ELSE IF r.deref THEN Read(e, get32(e.segments, r.val))
         ELSE Ret("OK", e, r.val))

\* inst.operands[k] (k counted from 0) and what is done with it; a missing
\* operand is Python's IndexError
HasOperand(inst, k) == k + 1 <= Len(inst.operands)
OperandType(inst, k) == inst.operands[k + 1].type
EvalOperand(e, inst, k) ==
    IF HasOperand(inst, k) THEN Eval(e, inst.operands[k + 1])
    ELSE Ret("IndexError", e, 0)

\* Engine.stack_pop
\* stack_pop leaving SP where it is
stack_pop_keep(e) ==
    Then(Read(e, get32(e.segments, e.regs[STACK_POINTER_REG_NAME])), LAMBDA m :
         Ret("OK", e, m.val))

stack_pop(e) ==
    Then(Read(e, get32(e.segments, e.regs[STACK_POINTER_REG_NAME])), LAMBDA m :
         Ret("OK",
             [e EXCEPT !.regs = set_reg(e.regs, STACK_POINTER_REG_NAME,
                                        e.regs[STACK_POINTER_REG_NAME] + 4).regs],
             m.val))

\* Engine.stack_push: SP moves before the write
stack_push(e, value) ==
    With([e EXCEPT !.regs = set_reg(e.regs, STACK_POINTER_REG_NAME,
                                    e.regs[STACK_POINTER_REG_NAME] - 4).regs],
         LAMBDA e1 :
         Written(e1, set32(e1.segments, e.regs[STACK_POINTER_REG_NAME] - 4, value)))

\* Engine.jmp_to; a relative target is an immediate written with a sign
\* (43 and 45 are "+" and "-")
\* jmp_to taking every operand for an absolute address
jmp_to_absolute(e, operand) ==
    Then(Eval(e, operand), LAMBDA v :
         IF v.val < 0 THEN Ret("BAD_INST", e, 0)
         ELSE Ret("OK", [e EXCEPT !.regs = set_program_counter(e.regs, v.val)], 0))

jmp_to(e, operand) ==
    Then(Eval(e, operand), LAMBDA v :
         With(IF /\ operand.type = "IMMEDIATE"
                 /\ operand.data # <<>>
                 /\ operand.data[1] \in {43, 45}
              THEN v.val + get_program_counter(e.regs) ELSE v.val,
              LAMBDA new_pc :
              IF new_pc < 0 THEN Ret("BAD_INST", e, 0)
              ELSE Ret("OK", [e EXCEPT !.regs = set_program_counter(e.regs, new_pc)], 0)))

\* Engine.assign_value
assign_value(e, dest, value) ==
    CASE dest.type = "IMMEDIATE" -> Ret("BAD_INST", e, 0)
      [] dest.type = "REGISTER" ->
           With(set_reg(e.regs, Str(dest.data), value), LAMBDA r :
                Ret(r.err, [e EXCEPT !.regs = r.regs], 0))
      [] dest.type = "ADDRESS" ->
           With(RegistersEval(e.regs, dest), LAMBDA a :
                IF a.err # "OK" THEN Ret(a.err, e, 0)
                ELSE Written(e, set32(e.segments, a.val, value)))

\* Engine.init
init(e, program) ==
    With(CHOOSE i \in 1..Len(e.segments) : e.segments[i].name = "code", LAMBDA code :
         [e EXCEPT
            !.breakpoints = <<>>,
            !.segments[code].mem =
                [i \in 1..e.segments[code].size |->
                    IF i <= Len(program) THEN program[i] ELSE e.segments[code].mem[i]],
            !.regs = [e.regs EXCEPT
                        ![BASE_POINTER_REG_NAME] =
                            to_u32(SEGMENTS.stack.start + SEGMENTS.stack.size - 16),
                        ![STACK_POINTER_REG_NAME] =
                            to_u32(SEGMENTS.stack.start + SEGMENTS.stack.size - 16),
                        ![PROGRAM_COUNTER_REG_NAME] = to_u32(SEGMENTS.code.start)]])

\* Engine.parse_code_at, once the segment of pc is found: [err, inst]
ParseLine(segment, pc, line_end_pos) ==
    IF line_end_pos = 0 - 1 THEN [err |-> "BAD_INST", inst |-> NoInst]
    ELSE With(SegmentGet(segment, pc, line_end_pos), LAMBDA line :
              IF line.err # "OK" THEN [err |-> line.err, inst |-> NoInst]
              ELSE With(Instruction(line.val), LAMBDA inst :
                        [err |-> inst.err, inst |-> inst]))

\* Engine.parse_code_at: [err, inst]
parse_code_at(e, pc) ==
    With(find_segment_by_addr(e.segments, pc), LAMBDA i :
         IF i = 0 THEN [err |-> "SEG_FAULT", inst |-> NoInst]
         ELSE IF ~executable(e.segments[i]) THEN [err |-> "SEG_FAULT", inst |-> NoInst]
         ELSE ParseLine(e.segments[i], pc, SegmentFind(e.segments[i], INST_DELIMITER, pc)))

(***************************************************************************)
(* Engine.resolve_inst: the match statement, for every mnemonic but        *)
(* SYSCALL (which suspends and is a sequence of actions below).            *)
(***************************************************************************)
MemToMemOps == {"AND", "OR", "XOR", "ADD", "SUB"}
ShiftOps == {"SAL", "SAR", "SHL", "SHR", "ROL", "ROR"}
MulDivOps == {"MULu", "MUL", "DIVu", "DIV"}
CompareOps == {"EQ", "NEQ", "GT", "GTu", "GTE", "GTEu", "LT", "LTu", "LTE", "LTEu"}

\* the util function each mnemonic applies to eval(operands[0]), eval(operands[1])
ArithResult(mnemonic, a, b) ==
    CASE mnemonic = "AND" -> and32(a, b)
      [] mnemonic = "OR" -> or32(a, b)
      [] mnemonic = "XOR" -> xor32(a, b)
      [] mnemonic = "ADD" -> add32(a, b)
      [] mnemonic = "SUB" -> sub32(a, b)
      [] mnemonic = "SAL" -> sal32(a, b)
      [] mnemonic = "SAR" -> sar32(a, b)
      [] mnemonic = "SHL" -> shl32(a, b)
      [] mnemonic = "SHR" -> shr32(a, b)
      [] mnemonic = "ROL" -> rol32(a, b)
      [] mnemonic = "ROR" -> ror32(a, b)

CompareResult(mnemonic, a, b) ==
    CASE mnemonic = "EQ" -> eq32(a, b)
      [] mnemonic = "NEQ" -> neq32(a, b)
      [] mnemonic = "GT" -> gt32(a, b)
      [] mnemonic = "GTu" -> gtu32(a, b)
      [] mnemonic = "GTE" -> gte32(a, b)
      [] mnemonic = "GTEu" -> gteu32(a, b)
      [] mnemonic = "LT" -> lt32(a, b)
      [] mnemonic = "LTu" -> ltu32(a, b)
      [] mnemonic = "LTE" -> lte32(a, b)
      [] mnemonic = "LTEu" -> lteu32(a, b)

\* inst.operands[k] as the target of jmp_to / assign_value
JumpOperand(e, inst, k) ==
    IF HasOperand(inst, k) THEN jmp_to(e, inst.operands[k + 1])
    ELSE Ret("IndexError", e, 0)
AssignOperand(e, inst, k, value) ==
    IF HasOperand(inst, k) THEN assign_value(e, inst.operands[k + 1], value)
    ELSE Ret("IndexError", e, 0)

\* JZ and JNZ both jumping on a zero word
ExecJumpOnZero(e, inst) ==
    IF inst.mnemonic = "JMP" THEN JumpOperand(e, inst, 0)
    ELSE Then(stack_pop(e), LAMBDA p :
              IF p.val = 0 THEN JumpOperand(p.e, inst, 0)
              ELSE Ret("OK", p.e, 0))

\* JMP, JZ, JNZ
ExecJump(e, inst) ==
    IF inst.mnemonic = "JMP" THEN JumpOperand(e, inst, 0)
    ELSE Then(stack_pop(e), LAMBDA p :
              IF (inst.mnemonic = "JZ") = (p.val = 0) THEN JumpOperand(p.e, inst, 0)
              ELSE Ret("OK", p.e, 0))

\* the guard against two memory operands: the exception it raises, or "OK"
MemToMem(inst) ==
    IF ~HasOperand(inst, 0) THEN "IndexError"
    ELSE IF OperandType(inst, 0) # "ADDRESS" THEN "OK"
    ELSE IF ~HasOperand(inst, 1) THEN "IndexError"
    ELSE IF OperandType(inst, 1) = "ADDRESS" THEN "BAD_INST"
    ELSE "OK"

\* the guard of the shifts and rotates
ShiftOperand(inst) ==
    IF ~HasOperand(inst, 1) THEN "IndexError"
    ELSE IF OperandType(inst, 1) = "ADDRESS" THEN "BAD_INST"
    ELSE "OK"

\* the guard of MUL and DIV
BothRegisters(inst) ==
    IF ~HasOperand(inst, 0) THEN "IndexError"
    ELSE IF OperandType(inst, 0) # "REGISTER" THEN "BAD_INST"
    ELSE IF ~HasOperand(inst, 1) THEN "IndexError"
    ELSE IF OperandType(inst, 1) # "REGISTER" THEN "BAD_INST"
    ELSE "OK"

\* eval(operands[0]), then eval(operands[1]), then K on the two values
EvalBoth(e, inst, K(_, _)) ==
    Then(EvalOperand(e, inst, 0), LAMBDA a :
         Then(EvalOperand(e, inst, 1), LAMBDA b : K(a.val, b.val)))

\* MOV
ExecMov(e, inst) ==
    IF MemToMem(inst) # "OK" THEN Ret(MemToMem(inst), e, 0)
    ELSE Then(EvalOperand(e, inst, 1), LAMBDA v : AssignOperand(e, inst, 0, v.val))

\* NOT
ExecNot(e, inst) ==
    Then(EvalOperand(e, inst, 0), LAMBDA v : AssignOperand(e, inst, 0, not32(v.val)))

\* AND, OR, XOR, ADD, SUB and the shifts and rotates
ExecArith(e, inst) ==
    With(IF inst.mnemonic \in MemToMemOps THEN MemToMem(inst) ELSE ShiftOperand(inst),
         LAMBDA rejected :
         IF rejected # "OK" THEN Ret(rejected, e, 0)
         ELSE EvalBoth(e, inst, LAMBDA a, b :
                       AssignOperand(e, inst, 0, ArithResult(inst.mnemonic, a, b))))

\* lo, hi = mul32(...) or div, mod = div32(...), then the two assignments
AssignPair(e, inst, pair) ==
    Then(AssignOperand(e, inst, 0, pair[1]), LAMBDA first :
         AssignOperand(first.e, inst, 1, pair[2]))

\* MULu, MUL, DIVu, DIV
ExecMulDiv(e, inst) ==
    IF BothRegisters(inst) # "OK" THEN Ret(BothRegisters(inst), e, 0)
    ELSE EvalBoth(e, inst, LAMBDA a, b :
            With(IF inst.mnemonic \in {"MUL", "DIV"} THEN uint32_to_int32(a) ELSE a,
                 LAMBDA x :
            With(IF inst.mnemonic \in {"MUL", "DIV"} THEN uint32_to_int32(b) ELSE b,
                 LAMBDA y :
                 IF inst.mnemonic \in {"MUL", "MULu"} THEN AssignPair(e, inst, mul32(x, y))
                 ELSE IF y = 0 THEN Ret("ZeroDivisionError", e, 0)
                 ELSE AssignPair(e, inst, div32(x, y)))))

\* the compare family
ExecCompare(e, inst) ==
    EvalBoth(e, inst, LAMBDA a, b :
             stack_push(e, IF CompareResult(inst.mnemonic, a, b) THEN 1 ELSE 0))

\* CALL, RET, PUSH, POP
ExecStack(e, inst) ==
    CASE inst.mnemonic = "CALL" ->
           Then(stack_push(e, get_program_counter(e.regs)), LAMBDA pushed :
                Then(EvalOperand(pushed.e, inst, 0), LAMBDA target :
                     Ret("OK", [pushed.e EXCEPT
                                  !.regs = set_program_counter(pushed.e.regs, target.val)],
                         0)))
      [] inst.mnemonic = "RET" ->
           Then(stack_pop(e), LAMBDA popped :
                Ret("OK", [popped.e EXCEPT
                             !.regs = set_program_counter(popped.e.regs, popped.val)], 0))
      [] inst.mnemonic = "PUSH" ->
           Then(EvalOperand(e, inst, 0), LAMBDA v : stack_push(e, v.val))
      [] inst.mnemonic = "POP" ->
           Then(stack_pop(e), LAMBDA popped :
                AssignOperand(popped.e, inst, 0, popped.val))

\* SWAP: the two reads, then the two writes
Swap(e, sp, target) ==
    Then(Read(e, get32(e.segments, sp)), LAMBDA value1 :
         Then(Read(e, get32(e.segments, target)), LAMBDA value2 :
              Then(Written(e, set32(e.segments, sp, value2.val)), LAMBDA w1 :
                   Written(w1.e, set32(w1.e.segments, target, value1.val)))))

\* SWAP, COPY
ExecSwapCopy(e, inst) ==
    Then(EvalOperand(e, inst, 0), LAMBDA n :
         With(sub32(e.regs[STACK_POINTER_REG_NAME], n.val * 4), LAMBDA target :
              IF inst.mnemonic = "COPY"
              THEN Then(Read(e, get32(e.segments, target)), LAMBDA value :
                        stack_push(e, value.val))
              ELSE Swap(e, e.regs[STACK_POINTER_REG_NAME], target)))

\* the match statement of resolve_inst
Execute(e, inst) ==
    CASE inst.mnemonic \in {"JMP", "JZ", "JNZ"} -> ExecJump(e, inst)
      [] inst.mnemonic = "MOV" -> ExecMov(e, inst)
      [] inst.mnemonic = "NOT" -> ExecNot(e, inst)
      [] inst.mnemonic \in MemToMemOps \cup ShiftOps -> ExecArith(e, inst)
      [] inst.mnemonic \in MulDivOps -> ExecMulDiv(e, inst)
      [] inst.mnemonic \in CompareOps -> ExecCompare(e, inst)
      [] inst.mnemonic \in {"CALL", "RET", "PUSH", "POP"} -> ExecStack(e, inst)
      [] inst.mnemonic \in {"SWAP", "COPY"} -> ExecSwapCopy(e, inst)
      [] inst.mnemonic = "NOP" -> Ret("OK", e, 0)
      [] OTHER -> Ret("BAD_INST", e, 0)

(***************************************************************************)
(* engine/file_manager.py and the synchronous syscalls of Engine.syscall   *)
(***************************************************************************)
\* FileManager.__getitem__: whether the file exists (None otherwise)
HasFile(files, filename) == filename \in DOMAIN files

\* FileManager.insert
insert(files, filename, content) ==
    [n \in DOMAIN files \cup {filename} |-> IF n = filename THEN content ELSE files[n]]

\* FileManager.list
RECURSIVE SetToSeq(_)
SetToSeq(S) ==
    IF S = {} THEN <<>>
    ELSE LET x == CHOOSE y \in S : TRUE IN <<x>> \o SetToSeq(S \ {x})
list(files) == SetToSeq(DOMAIN files)

\* a memory write made by a syscall that then returns val
WrittenVal(e, w, val) == Ret(w.err, [e EXCEPT !.segments = w.segments], val)

\* get_cstring for engine e, as a helper result
CString(e, addr) == Read(e, get_cstring(e.segments, addr))

\* syscall_readfile without its min: the whole file is copied
syscall_readfile_whole(e, filename, buf, length) ==
    Then(CString(e, filename), LAMBDA name :
         IF ~HasFile(e.files, name.val) THEN Ret("OK", e, 0 - 1)
         ELSE WrittenVal(e, MemorySet(e.segments, buf, buf + Len(e.files[name.val]),
                                      e.files[name.val]),
                         Len(e.files[name.val])))

\* syscall_readfile(filename, buf, length)
syscall_readfile(e, filename, buf, length) ==
    Then(CString(e, filename), LAMBDA name :
         IF ~HasFile(e.files, name.val) THEN Ret("OK", e, 0 - 1)
         ELSE With(Min(length, Len(e.files[name.val])), LAMBDA read_len :
                   WrittenVal(e, MemorySet(e.segments, buf, buf + read_len,
                                           SubSeq(e.files[name.val], 1, read_len)),
                              read_len)))

\* syscall_exec that loads nothing
syscall_exec_nothing(e, filename) == Ret("OK", e, 0 - 1)

\* syscall_exec(filename)
syscall_exec(e, filename) ==
    Then(CString(e, filename), LAMBDA command :
         IF ~HasFile(e.files, command.val) THEN Ret("OK", e, 0 - 1)
         ELSE Ret("OK", init(e, e.files[command.val]), 0 - 1))

\* b"\n".join(self._files.list()) + b"\n"
RECURSIVE JoinLines(_)
JoinLines(names) ==
    IF names = <<>> THEN <<>>
    ELSE IF Len(names) = 1 THEN Head(names)
    ELSE Head(names) \o <<10>> \o JoinLines(Tail(names))
ListFilesData(files) == JoinLines(list(files)) \o <<10>>

\* urlparse(url).scheme: the text before the first ":" (58) when it is a
\* letter followed by letters, digits, "+", "-" or ".", in lower case
IsLetter(b) == (b >= 97 /\ b <= 122) \/ (b >= 65 /\ b <= 90)
SchemeChar(b) == IsLetter(b) \/ (b >= 48 /\ b <= 57) \/ b \in {43, 45, 46}
Lower(b) == IF b >= 65 /\ b <= 90 THEN b + 32 ELSE b
SchemeOf(head) ==
    IF /\ head # <<>>
       /\ \A k \in 1..Len(head) : SchemeChar(head[k])
       /\ IsLetter(head[1])
    THEN Str([k \in 1..Len(head) |-> Lower(head[k])])
    ELSE ""
UrlScheme(url) == SchemeOf(SubSeq(url, 1, IndexOf(url, 58, 1) - 1))

scheme_blacklist == {"file", "gopher", "php", "dict", "ftp", "glob", "data"}

\* syscall_download(filename, url) between its hooks; lookup is what
\* gethostbyname(netloc) did ("loopback" for 127.0.0.1, "other", or "fail"
\* when it raised), fetched whether urlopen().read() returned, download_data
\* what it returned
syscall_download(e, filename, url, lookup, fetched, download_data) ==
    Then(CString(e, filename), LAMBDA name :
         Then(CString(e, url), LAMBDA u :
              IF UrlScheme(u.val) \in scheme_blacklist THEN Ret("BAD_ARGS", e, 0)
              ELSE IF lookup = "fail" THEN Ret("OSError", e, 0)
              ELSE IF lookup = "loopback" THEN Ret("BAD_ARGS", e, 0)
              ELSE IF ~fetched THEN Ret("OSError", e, 0)
              ELSE IF Len(download_data) > FILE_SIZE_LIMIT
              THEN Ret("INVALID_SOURCE_FILE", e, 0)
              ELSE Ret("OK",
                       [e EXCEPT !.files = insert(e.files, name.val, download_data)],
                       Len(download_data))))

(***************************************************************************)
(* The coroutines.  Python runs the code between two awaits without        *)
(* interruption, so a coroutine is a frame that rests at its suspension    *)
(* points and each action below is one resumption.  A frame records        *)
(*   pos      where the coroutine is suspended                             *)
(*   entered  whether this step() call passed the RUNNING check            *)
(*   inst     the decoded instruction of the step                          *)
(*   sys      the syscall between its hooks, args its arguments, ret its   *)
(*            result, data the bytes an OUTPUT took from memory            *)
(*   err      the error value step() reports                               *)
(* and, as history of the current call (of the current loop iteration for  *)
(* run()):                                                                 *)
(*   fired    the hooks triggered so far, in order                         *)
(*   cleared  whether the continue signal was clear when the gate closed   *)
(*   released whether the signal was set when the gate was passed          *)
(*   gatedStop whether stop() was called while the loop was gated          *)
(*   exited   whether the call has executed the EXIT syscall               *)
(***************************************************************************)
IdleFrame ==
    [pos |-> "idle", entered |-> FALSE, inst |-> NoInst, sys |-> "",
     args |-> <<0, 0, 0>>, ret |-> 0, data |-> <<>>, err |-> "OK", fired |-> <<>>,
     cleared |-> FALSE, released |-> FALSE, gatedStop |-> FALSE, exited |-> FALSE]

\* where a frame is inside step()
StepPositions == {"step_before", "sys_before", "io_wait", "sys_after", "step_after"}
\* where run() is gated at a breakpoint
GatePositions == {"bp_before", "bp_wait", "bp_after"}

Out(e, f) == [e |-> e, f |-> f]

\* step(), the except clause up to its await: a non-ISA exception becomes
\* UNKNOWN and ERROR/before is triggered
NormaliseNothing(err) == err
Normalise(err) == IF err \in ISAErrorCodes THEN err ELSE "UNKNOWN"
Fail(f, err) ==
    [f EXCEPT !.pos = "error", !.err = Normalise(err),
              !.fired = Append(@, "ERROR/before")]

\* start() and stop()
start(e) == [e EXCEPT !.state = "RUNNING"]
stop(e) == [e EXCEPT !.state = "STOPPED"]

\* step() after the state check: fetch, decode, advance PC, up to the first
\* await (STEP/before in resolve_inst); e is already STEPPING
Fetch(e, f, pc) ==
    With(parse_code_at(e, pc), LAMBDA p :
         IF p.err # "OK" THEN Out(e, Fail(f, p.err))
         ELSE Out([e EXCEPT !.regs = set_program_counter(e.regs, pc + p.inst.len)],
                  [f EXCEPT !.pos = "step_before", !.inst = p.inst,
                            !.fired = Append(@, "STEP/before")]))

\* step() without its check of the state
StepBeginUnchecked(e, f) ==
    Fetch([e EXCEPT !.state = "STEPPING"], [f EXCEPT !.entered = TRUE],
          get_program_counter(e.regs))

\* step() from its call to its first await
StepBegin(e, f) ==
    IF e.state # "RUNNING" THEN Out(e, Fail(f, "UNKNOWN"))
    ELSE Fetch([e EXCEPT !.state = "STEPPING"], [f EXCEPT !.entered = TRUE],
               get_program_counter(e.regs))

\* resolve_inst, case SYSCALL, after syscall() returned: R8 takes the
\* result and STEP/after is triggered
SysReturn(e, f, ret_value) ==
    Out([e EXCEPT !.regs = set_reg(e.regs, "R8", ret_value).regs],
        [f EXCEPT !.pos = "step_after", !.fired = Append(@, "STEP/after")])

\* the syscalls wrapped by event_emitter.emit and the event type of their hooks
SysHooked ==
    [n \in {0, 1, 2, 4, 6} |->
       CASE n = 0 -> [sys |-> "INPUT", event |-> "INPUT"]
         [] n = 1 -> [sys |-> "OUTPUT", event |-> "OUTPUT"]
         [] n = 2 -> [sys |-> "EXIT", event |-> "EXIT"]
         [] n = 4 -> [sys |-> "LIST_FILES", event |-> "OUTPUT"]
         [] n = 6 -> [sys |-> "DOWNLOAD", event |-> "DOWNLOAD"]]
SysEvent(sys) == IF sys = "LIST_FILES" THEN "OUTPUT" ELSE sys

\* the result r of the instruction's work, carried into the frame: the
\* except clause, or STEP/after
Settle(r, f) ==
    IF r.err # "OK" THEN Out(r.e, Fail(f, r.err))
    ELSE Out(r.e, [f EXCEPT !.pos = "step_after", !.fired = Append(@, "STEP/after")])

\* the result r of a syscall without hooks: the except clause, or R8 and
\* STEP/after
SettleSys(r, f) ==
    IF r.err # "OK" THEN Out(r.e, Fail(f, r.err)) ELSE SysReturn(r.e, f, r.val)

\* syscall() that takes every number for RANDOM
DispatchRandom(e, f, number, arg1, arg2, arg3, random) == SysReturn(e, f, random)

\* syscall(): the match on the number, up to the next await
Dispatch(e, f, number, arg1, arg2, arg3, random) ==
    IF number \in DOMAIN SysHooked
    THEN Out(e, [f EXCEPT !.pos = "sys_before", !.sys = SysHooked[number].sys,
                          !.args = <<arg1, arg2, arg3>>,
                          !.fired = Append(@, SysHooked[number].event \o "/before")])
    ELSE IF number = 3 THEN SettleSys(syscall_readfile(e, arg1, arg2, arg3), f)
    ELSE IF number = 5 THEN SettleSys(syscall_exec(e, arg1), f)
    ELSE IF number = 7 THEN SysReturn(e, f, random)
    ELSE Out(e, Fail(f, "BAD_INST"))

\* resolve_inst from the return of STEP/before to the next await; random is
\* what random.getrandbits(32) gives
AfterStepBefore(e, f, random) ==
    IF f.inst.mnemonic # "SYSCALL" THEN Settle(Execute(e, f.inst), f)
    ELSE Dispatch(e, f, e.regs["R8"], e.regs["R1"], e.regs["R2"], e.regs["R3"], random)

\* the frame as the after hook of its syscall is triggered, ret the result
After(f, ret) ==
    [f EXCEPT !.pos = "sys_after", !.ret = ret,
              !.fired = Append(@, SysEvent(f.sys) \o "/after")]

\* syscall_output up to its wait: the bytes are taken from memory
OutputBegin(e, f, out) ==
    IF out.err # "OK" THEN Out(e, Fail(f, out.err))
    ELSE Out(e, [f EXCEPT !.pos = "io_wait", !.data = out.val])

\* syscall_download between its hooks
Download(r, f) ==
    IF r.err # "OK" THEN Out(r.e, Fail(f, r.err)) ELSE Out(r.e, After(f, r.val))

\* a hooked syscall from the return of its before hook to its next await
\* (the I/O wait, or its after hook when it does not wait)
AfterSysBefore(e, f, lookup, fetched, download_data) ==
    CASE f.sys = "INPUT" -> Out(e, [f EXCEPT !.pos = "io_wait"])
      [] f.sys = "OUTPUT" ->
           OutputBegin(e, f, MemoryGet(e.segments, f.args[1], f.args[1] + f.args[2]))
      [] f.sys = "LIST_FILES" ->
           Out(e, [f EXCEPT !.pos = "io_wait", !.data = ListFilesData(e.files),
                            !.ret = Len(list(e.files))])
      [] f.sys = "EXIT" ->
           Out([stop(e) EXCEPT !.exit_code = f.args[1]],
               [After(f, f.args[1]) EXCEPT !.exited = TRUE])
      [] f.sys = "DOWNLOAD" ->
           Download(syscall_download(e, f.args[1], f.args[2], lookup, fetched,
                                     download_data), f)

\* syscall_input after its wait: the bytes go to memory
InputEnd(e, f, w, read_len) ==
    IF w.err # "OK" THEN Out(e, Fail(f, w.err))
    ELSE Out([e EXCEPT !.segments = w.segments], After(f, read_len))

\* a waiting syscall from the completion of its future to its after hook;
\* done is whether os.read / os.write returned, data what os.read gave,
\* out_len what os.write gave
AfterIO(e, f, done, data, out_len) ==
    IF ~done THEN Out(e, Fail(f, "OSError"))
    ELSE CASE f.sys = "INPUT" ->
                InputEnd(e, f, MemorySet(e.segments, f.args[1], f.args[1] + Len(data),
                                         data), Len(data))
           [] f.sys = "OUTPUT" -> Out(e, After(f, out_len))
           [] f.sys = "LIST_FILES" -> Out(e, After(f, f.ret))

\* step() restoring RUNNING whatever the state
StepFinishAlways(e) == [e EXCEPT !.state = "RUNNING"]

\* step() after resolve_inst returned
StepFinish(e) == IF e.state = "STEPPING" THEN [e EXCEPT !.state = "RUNNING"] ELSE e

\* run(): the match on the state, up to the next await
RunMatch(e, f) ==
    CASE e.state = "STOPPED" -> Out(e, [f EXCEPT !.pos = "done"])
      [] e.state = "STEPPING" -> Out(e, [f EXCEPT !.pos = "sleep"])
      [] e.state = "RUNNING" -> StepBegin(e, f)

\* run(): the breakpoint check finds pc in the list; up to the next await
Gate(e, f) ==
    Out(e, [f EXCEPT !.pos = "bp_before", !.cleared = ~e.event_continue,
                     !.fired = <<"BREAKPOINT/before">>])

\* run(): a loop iteration that leaves the continue signal as it is
RunLoopKeepSignal(e, f) ==
    IF \E i \in 1..Len(e.breakpoints) : e.breakpoints[i] = get_program_counter(e.regs)
    THEN Gate(e, [IdleFrame EXCEPT !.exited = f.exited])
    ELSE RunMatch(e, [IdleFrame EXCEPT !.exited = f.exited])

\* run(): the top of a loop iteration, up to the next await
RunLoop(e, f) ==
    IF \E i \in 1..Len(e.breakpoints) : e.breakpoints[i] = get_program_counter(e.regs)
    THEN Gate([e EXCEPT !.event_continue = FALSE], [IdleFrame EXCEPT !.exited = f.exited])
    ELSE RunMatch(e, [IdleFrame EXCEPT !.exited = f.exited])

\* run(): the except clause
RunExcept(e, f) == Out(stop(e), [f EXCEPT !.pos = "done"])

(***************************************************************************)
(* The programs the engine is constructed with, and the files of main.py   *)
(***************************************************************************)
\* MOV R8, 2 / MOV R1, 7 / SYSCALL / NOP
ProgramExit ==
    Bytes(<<"M", "O", "V", " ", "R", "8", ",", " ", "2", "\n", "M", "O", "V",
            " ", "R", "1", ",", " ", "7", "\n", "S", "Y", "S", "C", "A", "L",
            "L", "\n", "N", "O", "P", "\n">>)

\* MOV R1,0x500000 / MOV R2,2 / SYSCALL / SYSCALL : INPUT of two bytes, then
\* the syscall whose number is the count of bytes read
ProgramIO ==
    Bytes(<<"M", "O", "V", " ", "R", "1", ",", "0", "x", "5", "0", "0", "0",
            "0", "0", "\n", "M", "O", "V", " ", "R", "2", ",", "2", "\n",
            "S", "Y", "S", "C", "A", "L", "L", "\n", "S", "Y", "S", "C", "A",
            "L", "L", "\n">>)

\* MOV R1,[R2] with R2 = 0
ProgramReadUnmapped ==
    Bytes(<<"M", "O", "V", " ", "R", "1", ",", "[", "R", "2", "]", "\n">>)

\* MOV [R2],R1 with R2 = 0
ProgramWriteUnmapped ==
    Bytes(<<"M", "O", "V", " ", "[", "R", "2", "]", ",", "R", "1", "\n">>)

\* JMP 0
ProgramJumpUnmapped ==
    Bytes(<<"J", "M", "P", " ", "0", "\n">>)

\* MOV R2,0x500006 / MOV R1,[R2] / MOV [R2],R1 : a word two bytes before the
\* end of bss
ProgramStraddle ==
    Bytes(<<"M", "O", "V", " ", "R", "2", ",", "0", "x", "5", "0", "0", "0",
            "0", "6", "\n", "M", "O", "V", " ", "R", "1", ",", "[", "R", "2",
            "]", "\n", "M", "O", "V", " ", "[", "R", "2", "]", ",", "R", "1",
            "\n">>)

\* MOV R8,2 / SYSCALL : EXIT with code 0
ProgramQuit ==
    Bytes(<<"M", "O", "V", " ", "R", "8", ",", "2", "\n", "S", "Y", "S", "C", "A",
            "L", "L", "\n">>)

\* SYSCALL with every register 0: INPUT of no byte to address 0
ProgramInput ==
    Bytes(<<"S", "Y", "S", "C", "A", "L", "L", "\n">>)

\* MOV R1,010 : a literal that int(text) takes and int(text, 0) refuses
ProgramBadLiteral ==
    Bytes(<<"M", "O", "V", " ", "R", "1", ",", "0", "1", "0", "\n">>)

\* MOV R2,0x400000 / MOV [R2],R1 : a store to the code segment
ProgramWriteCode ==
    Bytes(<<"M", "O", "V", " ", "R", "2", ",", "0", "x", "4", "0", "0", "0",
            "0", "0", "\n", "M", "O", "V", " ", "[", "R", "2", "]", ",", "R",
            "1", "\n">>)

\* JMP 0x500000 / NOP : the next fetch is in bss
ProgramFetchBss ==
    Bytes(<<"J", "M", "P", " ", "0", "x", "5", "0", "0", "0", "0", "0", "\n",
            "N", "O", "P", "\n">>)

\* JMP SP / NOP : the next fetch is in the stack
ProgramFetchStack ==
    Bytes(<<"J", "M", "P", " ", "S", "P", "\n", "N", "O", "P", "\n">>)

\* MOV R1,0x400000 / MOV R2,2 / SYSCALL : INPUT of two bytes to the code
\* segment
ProgramInputCode ==
    Bytes(<<"M", "O", "V", " ", "R", "1", ",", "0", "x", "4", "0", "0", "0",
            "0", "0", "\n", "M", "O", "V", " ", "R", "2", ",", "2", "\n", "S",
            "Y", "S", "C", "A", "L", "L", "\n">>)

\* MOV R1,0x400021 / MOV R8,5 / SYSCALL and the byte f : EXEC of the file
\* whose name follows the last line
ProgramExec ==
    Bytes(<<"M", "O", "V", " ", "R", "1", ",", "0", "x", "4", "0", "0", "0",
            "2", "1", "\n", "M", "O", "V", " ", "R", "8", ",", "5", "\n", "S",
            "Y", "S", "C", "A", "L", "L", "\n", "f">>)

\* MOV SP,0 / PUSH R1 / POP R1 / POP R1 : a push with SP at the bottom of
\* the address space, pops up to its top
ProgramStackEnds ==
    Bytes(<<"M", "O", "V", " ", "S", "P", ",", "0", "\n", "P", "U", "S", "H",
            " ", "R", "1", "\n", "P", "O", "P", " ", "R", "1", "\n", "P", "O",
            "P", " ", "R", "1", "\n">>)

\* MOV R1,-1 / MOV R2,3 / MUL R1,R2 : a signed product below zero
ProgramMul ==
    Bytes(<<"M", "O", "V", " ", "R", "1", ",", "-", "1", "\n", "M", "O", "V",
            " ", "R", "2", ",", "3", "\n", "M", "U", "L", " ", "R", "1", ",",
            "R", "2", "\n">>)

\* MOV R1,7 / MOV R2,-2 / DIV R1,R2 : a signed quotient and a remainder
\* below zero
ProgramDiv ==
    Bytes(<<"M", "O", "V", " ", "R", "1", ",", "7", "\n", "M", "O", "V", " ",
            "R", "2", ",", "-", "2", "\n", "D", "I", "V", " ", "R", "1", ",",
            "R", "2", "\n">>)

\* scenario S5: CALL 0x400020 / MOV R8, 2 / SYSCALL / MOV R1, 42 / RET, the
\* last two at 0x400020
ProgramCallRet ==
    Bytes(<<"C", "A", "L", "L", " ", "0", "x", "4", "0", "0", "0", "2", "0",
            "\n", "M", "O", "V", " ", "R", "8", ",", " ", "2", "\n", "S", "Y",
            "S", "C", "A", "L", "L", "\n", "M", "O", "V", " ", "R", "1", ",",
            " ", "4", "2", "\n", "R", "E", "T", "\n">>)

\* PUSH 1 / JZ PC / MOV PC,R1 : a jump to PC that is not taken, then a MOV
\* to PC
ProgramNamePC ==
    Bytes(<<"P", "U", "S", "H", " ", "1", "\n", "J", "Z", " ", "P", "C", "\n",
            "M", "O", "V", " ", "P", "C", ",", "R", "1", "\n">>)

\* MOV R1,5 / PUSH R1 / POP R2
ProgramPushPop ==
    Bytes(<<"M", "O", "V", " ", "R", "1", ",", "5", "\n", "P", "U", "S", "H",
            " ", "R", "1", "\n", "P", "O", "P", " ", "R", "2", "\n">>)

\* JMP +0 / JMP -7 : a jump that falls through, then a jump back to its own
\* line
ProgramJumpRelative ==
    Bytes(<<"J", "M", "P", " ", "+", "0", "\n", "J", "M", "P", " ", "-", "7",
            "\n">>)

\* JMP -0x500000 : a jump back by more than PC
ProgramJumpNegative ==
    Bytes(<<"J", "M", "P", " ", "-", "0", "x", "5", "0", "0", "0", "0", "0",
            "\n">>)

\* MOV R1,7; with no newline after it: the last line of a file that does
\* not end with one
ProgramNoNewline ==
    Bytes(<<"M", "O", "V", " ", "R", "1", ",", "7", ";">>)

\* MOV SP,0 / PUSH -1 : the last word of the stack segment without a zero
\* byte
ProgramFillStack ==
    Bytes(<<"M", "O", "V", " ", "S", "P", ",", "0", "\n", "P", "U", "S", "H",
            " ", "-", "1", "\n">>)

\* MOV R1,7 / DIV R1,R2 : the divisor register holds 0
ProgramDivZero ==
    Bytes(<<"M", "O", "V", " ", "R", "1", ",", "7", "\n", "D", "I", "V", " ",
            "R", "1", ",", "R", "2", "\n">>)

\* MOV R1,0x8000001 / MOV R2,6 / MULu R1,R2 / MULu R2,R2 : a product of two
\* words, then a register multiplied by itself
ProgramMulu ==
    Bytes(<<"M", "O", "V", " ", "R", "1", ",", "0", "x", "8", "0", "0", "0",
            "0", "0", "1", "\n", "M", "O", "V", " ", "R", "2", ",", "6", "\n",
            "M", "U", "L", "u", " ", "R", "1", ",", "R", "2", "\n", "M", "U",
            "L", "u", " ", "R", "2", ",", "R", "2", "\n">>)

\* MOV R1,0x500000 / MOV R8,5 / SYSCALL / NOP : EXEC of the empty name,
\* which is no file
ProgramExecMissing ==
    Bytes(<<"M", "O", "V", " ", "R", "1", ",", "0", "x", "5", "0", "0", "0",
            "0", "0", "\n", "M", "O", "V", " ", "R", "8", ",", "5", "\n", "S",
            "Y", "S", "C", "A", "L", "L", "\n", "N", "O", "P", "\n">>)

\* MOV R1,0x40003a / MOV R2,0x500001 / MOV R3,3 / MOV R8,3 / SYSCALL and
\* the byte f : READFILE of the file whose name follows the last line, into
\* bss, asking for more than it holds
ProgramReadFile ==
    Bytes(<<"M", "O", "V", " ", "R", "1", ",", "0", "x", "4", "0", "0", "0",
            "3", "a", "\n", "M", "O", "V", " ", "R", "2", ",", "0", "x", "5",
            "0", "0", "0", "0", "1", "\n", "M", "O", "V", " ", "R", "3", ",",
            "3", "\n", "M", "O", "V", " ", "R", "8", ",", "3", "\n", "S", "Y",
            "S", "C", "A", "L", "L", "\n", "f">>)

\* MOV R1,0x400031 / MOV R2,0x500001 / MOV R8,3 / SYSCALL / NOP and the
\* byte g : READFILE of a name that is no file
ProgramReadMissing ==
    Bytes(<<"M", "O", "V", " ", "R", "1", ",", "0", "x", "4", "0", "0", "0",
            "3", "1", "\n", "M", "O", "V", " ", "R", "2", ",", "0", "x", "5",
            "0", "0", "0", "0", "1", "\n", "M", "O", "V", " ", "R", "8", ",",
            "3", "\n", "S", "Y", "S", "C", "A", "L", "L", "\n", "N", "O", "P",
            "\n", "g">>)

\* MOV R8,8 / SYSCALL / NOP : a syscall number that is none of 0..7
ProgramBadSyscall ==
    Bytes(<<"M", "O", "V", " ", "R", "8", ",", "8", "\n", "S", "Y", "S", "C",
            "A", "L", "L", "\n", "N", "O", "P", "\n">>)

\* scenario S1: MOV R1, 5 / MOV R2, 7 / ADD R1, R2 / PUSH R1 / POP R3 / MOV
\* R8, 2 / MOV R1, R3 / SYSCALL
ProgramS1 ==
    Bytes(<<"M", "O", "V", " ", "R", "1", ",", " ", "5", "\n", "M", "O", "V",
            " ", "R", "2", ",", " ", "7", "\n", "A", "D", "D", " ", "R", "1",
            ",", " ", "R", "2", "\n", "P", "U", "S", "H", " ", "R", "1", "\n",
            "P", "O", "P", " ", "R", "3", "\n", "M", "O", "V", " ", "R", "8",
            ",", " ", "2", "\n", "M", "O", "V", " ", "R", "1", ",", " ", "R",
            "3", "\n", "S", "Y", "S", "C", "A", "L", "L", "\n">>)

\* scenario S4, S3 with LTu: MOV R1, 0xFFFFFFF ; -1 signed / MOV R2, 1 /
\* LTu R1, R2 / JZ +3 / MOV R8, 2 / MOV R1, 1 / SYSCALL / MOV R8, 2 / MOV
\* R1, 0 / SYSCALL (the literal is the greatest word, 0xFFFFFFFF in the
\* source)
ProgramS4 ==
    Bytes(<<"M", "O", "V", " ", "R", "1", ",", " ", "0", "x", "F", "F", "F",
            "F", "F", "F", "F", " ", ";", " ", "-", "1", " ", "s", "i", "g",
            "n", "e", "d", "\n", "M", "O", "V", " ", "R", "2", ",", " ", "1",
            "\n", "L", "T", "u", " ", "R", "1", ",", " ", "R", "2", "\n", "J",
            "Z", " ", "+", "3", "\n", "M", "O", "V", " ", "R", "8", ",", " ",
            "2", "\n", "M", "O", "V", " ", "R", "1", ",", " ", "1", "\n", "S",
            "Y", "S", "C", "A", "L", "L", "\n", "M", "O", "V", " ", "R", "8",
            ",", " ", "2", "\n", "M", "O", "V", " ", "R", "1", ",", " ", "0",
            "\n", "S", "Y", "S", "C", "A", "L", "L", "\n">>)

\* POP 5 / NOP : a POP whose destination is an immediate
ProgramPopImmediate ==
    Bytes(<<"P", "O", "P", " ", "5", "\n", "N", "O", "P", "\n">>)

\* MOV to an immediate destination from a word of memory that is not mapped
\* (R1 holds 0)
ProgramMovImmediate ==
    Bytes(<<"M", "O", "V", " ", "5", ",", "[", "R", "1", "]", "\n", "N", "O",
            "P", "\n">>)

\* an empty line, a line that is only a comment, an instruction followed by
\* a comment, an instruction between blanks
ProgramComments ==
    Bytes(<<"\n", " ", ";", " ", "c", "\n", "M", "O", "V", " ", "R", "1", ",",
            " ", "1", " ", ";", " ", "x", "\n", " ", " ", "N", "O", "P", " ",
            " ", "\n">>)

\* a JZ that is not taken, a JNZ that is taken (to the PUSH 0 after the
\* NOP), a JNZ that is not taken
ProgramJzJnz ==
    Bytes(<<"P", "U", "S", "H", " ", "1", "\n", "J", "Z", " ", "0", "x", "4",
            "0", "0", "0", "0", "0", "\n", "P", "U", "S", "H", " ", "1", "\n",
            "J", "N", "Z", " ", "+", "4", "\n", "N", "O", "P", "\n", "P", "U",
            "S", "H", " ", "0", "\n", "J", "N", "Z", " ", "0", "x", "0", "\n">>)

\* scenario S3: MOV R1, 0xFFFFFFF ; -1 signed / MOV R2, 1 / LT R1, R2 / JZ
\* +3 / MOV R8, 2 / MOV R1, 1 / SYSCALL / MOV R8, 2 / MOV R1, 0 / SYSCALL
\* (the literal is the greatest word, 0xFFFFFFFF in the source)
ProgramS3 ==
    Bytes(<<"M", "O", "V", " ", "R", "1", ",", " ", "0", "x", "F", "F", "F",
            "F", "F", "F", "F", " ", ";", " ", "-", "1", " ", "s", "i", "g",
            "n", "e", "d", "\n", "M", "O", "V", " ", "R", "2", ",", " ", "1",
            "\n", "L", "T", " ", "R", "1", ",", " ", "R", "2", "\n", "J", "Z",
            " ", "+", "3", "\n", "M", "O", "V", " ", "R", "8", ",", " ", "2",
            "\n", "M", "O", "V", " ", "R", "1", ",", " ", "1", "\n", "S", "Y",
            "S", "C", "A", "L", "L", "\n", "M", "O", "V", " ", "R", "8", ",",
            " ", "2", "\n", "M", "O", "V", " ", "R", "1", ",", " ", "0", "\n",
            "S", "Y", "S", "C", "A", "L", "L", "\n">>)

\* SAR and SHR by 40, more than the bits of a word, of words whose top bit
\* is set
ProgramShifts ==
    Bytes(<<"M", "O", "V", " ", "R", "1", ",", "0", "x", "F", "F", "F", "F",
            "F", "F", "F", "\n", "S", "A", "R", " ", "R", "1", ",", "4", "0",
            "\n", "M", "O", "V", " ", "R", "2", ",", "0", "x", "8", "0", "0",
            "0", "0", "0", "0", "\n", "S", "H", "R", " ", "R", "2", ",", "4",
            "0", "\n">>)

\* PUSH with SP in the code segment
ProgramPushCode ==
    Bytes(<<"M", "O", "V", " ", "S", "P", ",", "0", "x", "4", "0", "0", "0",
            "0", "8", "\n", "P", "U", "S", "H", " ", "7", "\n">>)

\* the programs run with two callers, and those run by run() alone
Programs ==
    {ProgramQuit, ProgramInput, ProgramBadLiteral, ProgramReadUnmapped,
     ProgramWriteUnmapped, ProgramJumpUnmapped}
ProgramsRun == Programs \cup {ProgramExit, ProgramIO, ProgramStraddle}

\* the programs run by main.py
ProgramsMain ==
    {ProgramExit, ProgramIO,
     ProgramWriteCode,
     ProgramFetchBss,
     ProgramFetchStack,
     ProgramInputCode,
     ProgramExec,
     ProgramStackEnds,
     ProgramMul,
     ProgramDiv,
     ProgramCallRet,
     ProgramNamePC,
     ProgramPushPop,
     ProgramJumpRelative,
     ProgramJumpNegative,
     ProgramNoNewline,
     ProgramFillStack,
     ProgramDivZero,
     ProgramMulu,
     ProgramExecMissing,
     ProgramReadFile,
     ProgramReadMissing,
     ProgramBadSyscall,
     ProgramS1,
     ProgramS4,
     ProgramPopImmediate,
     ProgramMovImmediate,
     ProgramComments,
     ProgramJzJnz,
     ProgramS3,
     ProgramShifts,
     ProgramPushCode}

\* vfiles whose file is a program of one line: NOP and its delimiter, and
\* NOP without a delimiter
VFilesLine == [n \in {Bytes(<<"f">>)} |-> Bytes(<<"N", "O", "P", "\n">>)]
VFilesNoLine == [n \in {Bytes(<<"f">>)} |-> Bytes(<<"N", "O", "P">>)]

\* vfiles whose file is one byte longer than FILE_SIZE_LIMIT
VFilesOversize ==
    [n \in {Bytes(<<"f">>)} |-> [i \in 1..(FILE_SIZE_LIMIT + 1) |-> Ord["x"]]]

\* vfiles, one file
VFILES == [n \in {Bytes(<<"f">>)} |-> Bytes(<<"h", "i">>)]

\* what the descriptors and the network give: the bytes waiting on stdin,
\* the results of random.getrandbits, the bodies a download returns
STDIN == Bytes(<<"h", "i">>)
RandomValues == {0, UINT32_MAX}
DownloadBodies == {<<>>, Bytes(<<"x">>)}

\* the program and the vfiles of a run: every program with VFILES, the
\* program that executes a file with the files that are programs, and a
\* program with the file that is longer than FILE_SIZE_LIMIT
RunsMain ==
    (ProgramsMain \X {VFILES})
    \cup ({ProgramExec} \X {VFilesLine, VFilesNoLine})
    \cup ({ProgramExit} \X {VFilesOversize})

\* Engine.__init__: the three segments, in the order they are mapped
Mapped ==
    map(map(map(<<>>, "code", SEGMENTS.code.start, SEGMENTS.code.size,
                SEGMENTS.code.permission, <<>>).segments,
            "bss", SEGMENTS.bss.start, SEGMENTS.bss.size,
            SEGMENTS.bss.permission, <<>>).segments,
        "stack", SEGMENTS.stack.start, SEGMENTS.stack.size,
        SEGMENTS.stack.permission, <<>>).segments

\* Engine.__init__ with the vfiles given
BootWith(program, vfiles) ==
    init([state |-> "STOPPED", exit_code |-> 0,
          regs |-> [r \in REGISTERS |-> 0],
          segments |-> Mapped, files |-> vfiles,
          breakpoints |-> <<>>, event_continue |-> FALSE], program)

\* Engine.__init__
Boot(program) == BootWith(program, VFILES)

(***************************************************************************)
(* The state: the Engine object and the two coroutines that use it, "run"  *)
(* for Engine.run() and "ext" for a caller of Engine.step().               *)
(***************************************************************************)
VARIABLES engine, task
vars == <<engine, task>>

Tasks == {"run", "ext"}

Init ==
    /\ \E program \in Programs : engine = Boot(program)
    /\ task = [t \in Tasks |-> IdleFrame]

Become(t, o) ==
    /\ engine' = o.e
    /\ task' = [task EXCEPT ![t] = o.f]

\* what follows the end of a step() call: the direct caller has its answer,
\* run() goes on with the next iteration (raised: its except clause)
Return(t, e, f, raised) ==
    IF t = "ext" THEN Out(e, IdleFrame)
    ELSE IF raised THEN RunExcept(e, f)
    ELSE RunLoop(e, f)

\* await engine.run()
CallRun ==
    /\ task["run"].pos = "idle"
    /\ Become("run", RunLoop(start(engine), task["run"]))

\* await engine.step() by a caller other than run()
CallStep ==
    /\ task["ext"].pos = "idle"
    /\ Become("ext", StepBegin(engine, IdleFrame))

\* the STEP/before handler returns (ok) or raises
StepBeforeReturn(t, ok) ==
    /\ task[t].pos = "step_before"
    /\ \E random \in RandomValues :
          Become(t, IF ok THEN AfterStepBefore(engine, task[t], random)
                    ELSE Out(engine, Fail(task[t], "HandlerError")))

\* the before handler of a syscall returns or raises
SysBeforeReturn(t, ok) ==
    /\ task[t].pos = "sys_before"
    /\ \E lookup \in {"loopback", "other", "fail"}, fetched \in BOOLEAN,
          download_data \in DownloadBodies :
          Become(t, IF ok THEN AfterSysBefore(engine, task[t], lookup, fetched,
                                              download_data)
                    ELSE Out(engine, Fail(task[t], "HandlerError")))

\* the descriptor is ready and the callback has read or written
IOComplete(t, done) ==
    /\ task[t].pos = "io_wait"
    /\ \E k \in 0..Min(task[t].args[2], Len(STDIN)), out_len \in 0..Len(task[t].data) :
          Become(t, AfterIO(engine, task[t], done, SubSeq(STDIN, 1, k), out_len))

\* the after handler of a syscall returns or raises
SysAfterReturn(t, ok) ==
    /\ task[t].pos = "sys_after"
    /\ Become(t, IF ok THEN SysReturn(engine, task[t], task[t].ret)
                 ELSE Out(engine, Fail(task[t], "HandlerError")))

\* the STEP/after handler returns or raises; step() ends
StepAfterReturn(t, ok) ==
    /\ task[t].pos = "step_after"
    /\ Become(t, IF ok THEN Return(t, StepFinish(engine), task[t], FALSE)
                 ELSE Out(engine, Fail(task[t], "HandlerError")))

\* the ERROR/before handler returns or raises: step() raises either way
ErrorReturn(t) ==
    /\ task[t].pos = "error"
    /\ Become(t, Return(t, engine, task[t], TRUE))

\* event_continue.wait() as run() reaches it or is woken from it
PassGate(e, f) ==
    Out(e, [f EXCEPT !.pos = "bp_after", !.released = e.event_continue,
                     !.fired = Append(@, "BREAKPOINT/after")])

\* the BREAKPOINT/before handler returns or raises
BreakpointBeforeReturn(ok) ==
    /\ task["run"].pos = "bp_before"
    /\ Become("run", IF ~ok THEN RunExcept(engine, task["run"])
                     ELSE IF engine.event_continue THEN PassGate(engine, task["run"])
                     ELSE Out(engine, [task["run"] EXCEPT !.pos = "bp_wait"]))

\* run() wakes from event_continue.wait()
ContinueWake ==
    /\ task["run"].pos = "bp_wait"
    /\ engine.event_continue
    /\ Become("run", PassGate(engine, task["run"]))

\* the BREAKPOINT/after handler returns or raises
BreakpointAfterReturn(ok) ==
    /\ task["run"].pos = "bp_after"
    /\ Become("run", IF ok THEN RunMatch(engine, task["run"])
                     ELSE RunExcept(engine, task["run"]))

\* sleep(0.5) is over
SleepReturn ==
    /\ task["run"].pos = "sleep"
    /\ Become("run", RunLoop(engine, task["run"]))

\* the host calls engine.start()
Start ==
    /\ engine.state # "RUNNING"
    /\ engine' = start(engine)
    /\ UNCHANGED task

\* the host calls engine.stop()
Stop ==
    /\ engine.state # "STOPPED"
    /\ engine' = stop(engine)
    /\ task' = [task EXCEPT !["run"].gatedStop = @ \/ task["run"].pos \in GatePositions]

\* the host calls engine.event_continue.set()
Continue ==
    /\ ~engine.event_continue
    /\ engine' = [engine EXCEPT !.event_continue = TRUE]
    /\ UNCHANGED task

\* the host calls engine.add_breakpoint with the address about to be executed
AddBreakpoint ==
    /\ Len(engine.breakpoints) < MaxBreakpoints
    /\ engine' = [engine EXCEPT !.breakpoints =
                     Append(@, get_program_counter(engine.regs))]
    /\ UNCHANGED task

\* list.remove(x): the first occurrence goes
Remove(s, x) ==
    LET i == CHOOSE k \in 1..Len(s) : s[k] = x /\ \A j \in 1..(k - 1) : s[j] # x
    IN  SubSeq(s, 1, i - 1) \o SubSeq(s, i + 1, Len(s))

\* the host calls engine.remove_breakpoint with an address of the list
RemoveBreakpoint ==
    /\ \E i \in 1..Len(engine.breakpoints) :
          engine' = [engine EXCEPT !.breakpoints = Remove(@, engine.breakpoints[i])]
    /\ UNCHANGED task

\* the engine and every caller the API admits: run(), direct step() calls,
\* start() and stop() at any time, handlers and descriptors that may fail
Next ==
    \/ CallRun
    \/ CallStep
    \/ \E t \in Tasks, ok \in BOOLEAN : StepBeforeReturn(t, ok)
    \/ \E t \in Tasks, ok \in BOOLEAN : SysBeforeReturn(t, ok)
    \/ \E t \in Tasks, done \in BOOLEAN : IOComplete(t, done)
    \/ \E t \in Tasks, ok \in BOOLEAN : SysAfterReturn(t, ok)
    \/ \E t \in Tasks, ok \in BOOLEAN : StepAfterReturn(t, ok)
    \/ \E t \in Tasks : ErrorReturn(t)
    \/ \E ok \in BOOLEAN : BreakpointBeforeReturn(ok)
    \/ ContinueWake
    \/ \E ok \in BOOLEAN : BreakpointAfterReturn(ok)
    \/ SleepReturn
    \/ Start
    \/ Stop
    \/ Continue
    \/ AddBreakpoint
    \/ RemoveBreakpoint

Spec == Init /\ [][Next]_vars

\* the engine driven as main.py drives it: run() is the only caller of
\* step(), nothing calls start(), handlers return; the host may stop the
\* engine, set the continue signal and edit the breakpoints.  (With one
\* caller the match in run() never finds STEPPING, so there is no sleep.)
NextRun ==
    \/ CallRun
    \/ StepBeforeReturn("run", TRUE)
    \/ SysBeforeReturn("run", TRUE)
    \/ \E done \in BOOLEAN : IOComplete("run", done)
    \/ SysAfterReturn("run", TRUE)
    \/ StepAfterReturn("run", TRUE)
    \/ ErrorReturn("run")
    \/ BreakpointBeforeReturn(TRUE)
    \/ ContinueWake
    \/ BreakpointAfterReturn(TRUE)
    \/ Stop
    \/ Continue
    \/ AddBreakpoint
    \/ RemoveBreakpoint

InitRun ==
    /\ \E program \in ProgramsRun : engine = Boot(program)
    /\ task = [t \in Tasks |-> IdleFrame]

SpecRun == InitRun /\ [][NextRun]_vars

\* the engine as main.py runs it: one call of run(), no breakpoint, nothing
\* else touching the engine, handlers return
NextMain ==
    \/ CallRun
    \/ StepBeforeReturn("run", TRUE)
    \/ SysBeforeReturn("run", TRUE)
    \/ \E done \in BOOLEAN : IOComplete("run", done)
    \/ SysAfterReturn("run", TRUE)
    \/ StepAfterReturn("run", TRUE)
    \/ ErrorReturn("run")

InitMain ==
    /\ \E main \in RunsMain : engine = BootWith(main[1], main[2])
    /\ task = [t \in Tasks |-> IdleFrame]

SpecMain == InitMain /\ [][NextMain]_vars

\* run() has not returned: one of the actions of NextMain is enabled
Busy ==
    task["run"].pos \in StepPositions \cup {"idle", "error"}

\* the same with the event loop of asyncio.run, which goes on with run() as
\* long as run() has not returned: handlers return, I/O completes.  This is
\* weak fairness of NextMain, WF_vars(NextMain), written out with Busy for
\* ENABLED <<NextMain>>_vars
SpecMainFair == SpecMain /\ ([]<>(~Busy) \/ []<><<NextMain>>_vars)

\* the host mapping and unmapping segments of the constructed engine: the
\* names, first addresses and sizes it asks for, around the code segment
MapNames == {"code", "a"}
MapStarts ==
    {SEGMENTS.code.start - 2, SEGMENTS.code.start,
     SEGMENTS.code.start + SEGMENTS.code.size - 2,
     SEGMENTS.code.start + SEGMENTS.code.size}
MapSizes == {0, 2, 4}

\* memory.map(name, start, size): the frame of the caller keeps which call
\* it made and the exception it got
MapCall(name, first, size) ==
    With(map(engine.segments, name, first, size, READ + WRITE + EXEC, <<>>), LAMBDA r :
         /\ engine' = [engine EXCEPT !.segments = r.segments]
         /\ task' = [task EXCEPT !["ext"].sys = "map", !["ext"].err = r.err])

\* memory.munmap(addr_or_name)
MunmapCall(isint, addr_or_name) ==
    With(munmap(engine.segments, isint, addr_or_name), LAMBDA r :
         /\ engine' = [engine EXCEPT !.segments = r.segments]
         /\ task' = [task EXCEPT !["ext"].sys = "munmap", !["ext"].err = r.err])

NextMap ==
    \/ \E name \in MapNames, first \in MapStarts, size \in MapSizes :
          MapCall(name, first, size)
    \/ \E name \in MapNames \cup {"stack"} : MunmapCall(FALSE, name)
    \/ \E addr \in MapStarts : MunmapCall(TRUE, addr)

InitMap ==
    /\ engine = Boot(ProgramQuit)
    /\ task = [t \in Tasks |-> IdleFrame]

SpecMap == InitMap /\ [][NextMap]_vars

(***************************************************************************)
(* Properties of step(), start(), stop() and run()                         *)
(***************************************************************************)
\* a step() call that passed the RUNNING check and has not come to its end
InFlight(t) == task[t].entered /\ task[t].pos \in StepPositions

(* C1: whatever the interleaving of run(), direct step() calls, start() and *)
(* stop(), at most one step is in flight: no second step() fetches or       *)
(* executes between another step's RUNNING->STEPPING and its completion.    *)
OneStepInFlight == ~(InFlight("run") /\ InFlight("ext"))

(* C2: step() called while the state is not RUNNING raises UNKNOWN without  *)
(* fetching or executing: the call changes no register, no memory byte and  *)
(* not the engine state, from the call to the return of its ERROR handler.  *)
RefusedStepChangesNothing ==
    [][/\ (task["ext"].pos = "idle" /\ task'["ext"].pos # "idle"
             /\ engine.state # "RUNNING")
          => /\ engine' = engine
             /\ task'["ext"].pos = "error"
             /\ ~task'["ext"].entered
             /\ task'["ext"].err = "UNKNOWN"
             /\ task'["ext"].fired = <<"ERROR/before">>
       /\ (task["ext"].pos = "error" /\ ~task["ext"].entered
             /\ task'["ext"].pos # "error")
          => /\ engine' = engine
             /\ task'["ext"].pos = "idle"]_vars

\* a step() refused while another step is in flight
RefusedWhileStepping ==
    /\ task["ext"].pos = "error"
    /\ ~task["ext"].entered
    /\ engine.state = "STEPPING"
    /\ InFlight("run")

(* C3: when a step() that began in state RUNNING fails, the state after the *)
(* failed call is STOPPED, for run() and for a direct caller alike.         *)
FailedStepStops ==
    [][\A t \in Tasks :
          (task[t].pos = "error" /\ task[t].entered /\ task'[t].pos # "error")
          => engine'.state = "STOPPED"]_vars

\* how often x occurs in the sequence s
Count(s, x) == Cardinality({i \in 1..Len(s) : s[i] = x})

(* C4: when a step fails inside run(), ERROR/before fires exactly once, and *)
(* last, with an ISA error code (a host exception is reported as UNKNOWN);  *)
(* run() executes nothing more and returns; and whenever run() returns the  *)
(* state is STOPPED.                                                        *)
RunFailureStops ==
    /\ [](task["run"].pos = "error"
          => /\ task["run"].err \in ISAErrorCodes
             /\ Count(task["run"].fired, "ERROR/before") = 1
             /\ task["run"].fired[Len(task["run"].fired)] = "ERROR/before")
    /\ [](task["run"].pos # "error"
          => Count(task["run"].fired, "ERROR/before") = 0
             \/ (task["run"].pos = "done" /\ task["run"].err # "OK"))
    /\ [][/\ task["run"].pos = "error"
             => task'["run"].pos \in {"error", "done"}
          /\ task["run"].pos = "done" => task'["run"] = task["run"]
          /\ (task["run"].pos # "done" /\ task'["run"].pos = "done")
             => engine'.state = "STOPPED"]_vars

\* run() has returned after a step failed with a host exception
RunReturnedAfterHostError ==
    /\ task["run"].pos = "done"
    /\ task["run"].err = "UNKNOWN"
    /\ task["run"].entered
    /\ engine.state = "STOPPED"

(* C5: once stop() (or EXIT) has set the state to STOPPED, run() sees it at *)
(* the top of its next iteration and returns, whatever PC and the           *)
(* breakpoints are: it is never gated at a breakpoint with the engine       *)
(* stopped before the gate closed.                                          *)
StoppedLoopExits ==
    (engine.state = "STOPPED" /\ task["run"].pos \in GatePositions)
    => task["run"].gatedStop

\* the position of x in the sequence s, 0 if it is not there
Position(s, x) ==
    IF \E i \in 1..Len(s) : s[i] = x THEN CHOOSE i \in 1..Len(s) : s[i] = x ELSE 0

(* C6: at the top of its loop with PC among the breakpoints, run() clears   *)
(* the continue signal and fires BREAKPOINT/before; it executes nothing     *)
(* until the signal is set; BREAKPOINT/after fires on release, before the   *)
(* STEP/before of the next instruction; if the engine was stopped while     *)
(* gated, nothing executes after the release.                               *)
GateHoldsUntilContinue ==
    /\ task["run"].pos \in GatePositions
       => /\ task["run"].cleared
          /\ task["run"].fired[1] = "BREAKPOINT/before"
          /\ Position(task["run"].fired, "STEP/before") = 0
    /\ task["run"].pos \in {"bp_before", "bp_wait"}
       => task["run"].fired = <<"BREAKPOINT/before">>
    /\ Position(task["run"].fired, "BREAKPOINT/after") # 0
       => /\ task["run"].released
          /\ SubSeq(task["run"].fired, 1, 2) = <<"BREAKPOINT/before", "BREAKPOINT/after">>
    /\ (Position(task["run"].fired, "BREAKPOINT/before") # 0
          /\ Position(task["run"].fired, "STEP/before") # 0)
       => /\ Position(task["run"].fired, "STEP/before") = 3
          /\ task["run"].released
    /\ task["run"].gatedStop
       => /\ task["run"].pos \in GatePositions \cup {"done"}
          /\ Position(task["run"].fired, "STEP/before") = 0

\* an instruction of run() after a gate that was released
SteppedAfterRelease ==
    /\ task["run"].pos = "step_before"
    /\ task["run"].fired = <<"BREAKPOINT/before", "BREAKPOINT/after", "STEP/before">>
    /\ task["run"].cleared
    /\ task["run"].released

(* C7: SYSCALL with R8 = 2 sets exit_code to the value of R1, stops the     *)
(* engine and leaves the code in R8; it is the last instruction run()      *)
(* executes: the step that completes does not restore RUNNING, and no      *)
(* ERROR event fires.                                                       *)
ExitIsLast ==
    task["run"].exited
    => /\ engine.state = "STOPPED"
       /\ engine.exit_code = engine.regs["R1"]
       /\ task["run"].pos \in {"sys_after", "step_after", "done"} \cup GatePositions
       /\ task["run"].pos = "sys_after"
          => (task["run"].fired = <<"STEP/before", "EXIT/before", "EXIT/after">>
                \/ task["run"].fired = <<"BREAKPOINT/before", "BREAKPOINT/after",
                                         "STEP/before", "EXIT/before", "EXIT/after">>)
             /\ task["run"].args[1] = engine.exit_code
       /\ task["run"].pos # "sys_after" => engine.regs["R8"] = engine.exit_code
       /\ Position(task["run"].fired, "ERROR/before") = 0

\* run() has returned after EXIT with a code other than 0
ExitedWithCode ==
    /\ task["run"].exited
    /\ task["run"].pos = "done"
    /\ engine.exit_code = 7

\* the hooks of the step of frame f, without those of the gate before it
StepHooks(f) ==
    IF Len(f.fired) >= 2 /\ f.fired[1] = "BREAKPOINT/before"
    THEN SubSeq(f.fired, 3, Len(f.fired))
    ELSE f.fired

\* the hooks of a syscall between STEP/before and STEP/after
SyscallHooks == {"INPUT", "OUTPUT", "EXIT", "DOWNLOAD"}

\* the hooks fired for the step of frame f are in bracket order so far
Bracketed(f) ==
    CASE f.pos = "step_before" -> StepHooks(f) = <<"STEP/before">>
      [] f.pos \in {"sys_before", "io_wait"} ->
           \E h \in SyscallHooks : StepHooks(f) = <<"STEP/before", h \o "/before">>
      [] f.pos = "sys_after" ->
           \E h \in SyscallHooks :
              StepHooks(f) = <<"STEP/before", h \o "/before", h \o "/after">>
      [] f.pos = "step_after" ->
           \/ StepHooks(f) = <<"STEP/before", "STEP/after">>
           \/ \E h \in SyscallHooks :
                 StepHooks(f) = <<"STEP/before", h \o "/before", h \o "/after",
                                  "STEP/after">>
      [] f.pos = "error" ->
           /\ f.fired[Len(f.fired)] = "ERROR/before"
           /\ \A i \in 1..(Len(f.fired) - 2) : f.fired[i] # "STEP/after"
      [] OTHER -> TRUE

\* every step's hooks are in bracket order
EveryStepBracketed == \A t \in Tasks : Bracketed(task[t])

\* the step of t is between its STEP/before and its STEP/after
HooksOpen(t) ==
    /\ task[t].pos \in StepPositions
    /\ \E i \in 1..Len(task[t].fired) : task[t].fired[i] = "STEP/before"
    /\ \A i \in 1..Len(task[t].fired) : task[t].fired[i] # "STEP/after"

(* C8: the hooks bracket every executed instruction: STEP/before, then the  *)
(* before and after hooks of its syscall if it has one, then STEP/after;    *)
(* an instruction that fails fires no STEP/after; and the hook sequences of *)
(* two different steps never interleave.                                    *)
HooksNeverInterleave ==
    /\ EveryStepBracketed
    /\ ~(HooksOpen("run") /\ HooksOpen("ext"))

(***************************************************************************)
(* Properties of the memory                                                *)
(***************************************************************************)
\* addr lies in no mapped segment
Unmapped(segments, addr) ==
    \A i \in 1..Len(segments) :
       addr < segments[i].start \/ addr >= segments[i].start + segments[i].size

\* the four bytes at addr begin in a segment and go past its end
Straddles(segments, addr) ==
    \E i \in 1..Len(segments) :
       /\ addr >= segments[i].start
       /\ addr < segments[i].start + segments[i].size
       /\ addr + 4 > segments[i].start + segments[i].size

\* the addresses tried in a state: what the registers hold, the two ends of
\* every segment and their neighbours, and values beyond 32 bits
ProbeAddresses ==
    {engine.regs[r] : r \in REGISTERS}
    \cup {0, UINT32_MAX, UINT32_MAX + 1, 0 - 1}
    \cup UNION {{engine.segments[i].start - 1, engine.segments[i].start,
                 engine.segments[i].end - 1, engine.segments[i].end,
                 engine.segments[i].end + UINT32_MAX + 1}
                : i \in 1..Len(engine.segments)}

(* C9: an instruction fetch, a 32-bit read or a 32-bit write at an address  *)
(* that (mod 2^32) lies in no mapped segment fails with SEG_FAULT and       *)
(* changes no memory byte.                                                  *)
UnmappedAccessFaults ==
    \A a \in ProbeAddresses :
       Unmapped(engine.segments, to_u32(a))
       => /\ get32(engine.segments, a).err = "SEG_FAULT"
          /\ \A value \in {0, UINT32_MAX, engine.regs["R1"]} :
                set32(engine.segments, a, value)
                   = [err |-> "SEG_FAULT", segments |-> engine.segments]
          /\ parse_code_at(engine, to_u32(a)).err = "SEG_FAULT"

\* a step of run() has failed on an unmapped address: a MOV through R2, or
\* the fetch at PC
FaultedOnUnmapped ==
    /\ task["run"].pos = "error"
    /\ task["run"].err = "SEG_FAULT"
    /\ \/ /\ task["run"].inst.mnemonic = "MOV"
          /\ Unmapped(engine.segments, engine.regs["R2"])
       \/ /\ task["run"].inst = NoInst
          /\ Unmapped(engine.segments, get_program_counter(engine.regs))

(* C10: slices stay inside the owning segment: a 32-bit read or write whose *)
(* four bytes begin inside a segment and go past its end is rejected with   *)
(* SEG_FAULT, never answered from fewer bytes.                              *)
SliceStaysInside ==
    \A r \in REGISTERS :
       Straddles(engine.segments, engine.regs[r])
       => /\ get32(engine.segments, engine.regs[r]).err = "SEG_FAULT"
          /\ set32(engine.segments, engine.regs[r], engine.regs["R1"]).err = "SEG_FAULT"

(***************************************************************************)
(* Properties of the permissions                                           *)
(***************************************************************************)
\* the table after segment i is unmapped and mapped again, with the bytes it
\* holds and the permission p
Remapped(segments, i, p) ==
    map(munmap(segments, FALSE, segments[i].name).segments, segments[i].name,
        segments[i].start, segments[i].size, p, segments[i].mem).segments

\* addresses of segment seg: its first byte, its last word, and what the
\* registers hold when that lies in it
AddressesIn(seg) ==
    {seg.start, seg.end - 4}
    \cup {engine.regs[r] : r \in {x \in REGISTERS :
                                    /\ engine.regs[x] >= seg.start
                                    /\ engine.regs[x] + 4 <= seg.end}}

\* every access to segment i of the table that goes through the segment
\* interface checks the bit of its kind
AccessChecked(segments, i) ==
    \A a \in AddressesIn(segments[i]) :
       /\ ~writable(segments[i])
          => /\ \A value \in {0, UINT32_MAX} :
                   set32(segments, a, value)
                      = [err |-> "SEG_FAULT", segments |-> segments]
             /\ \A data \in {<<>>, STDIN} :
                   MemorySet(segments, a, a + Len(data), data)
                      = [err |-> "SEG_FAULT", segments |-> segments]
       /\ ~readable(segments[i])
          => /\ get32(segments, a).err = "SEG_FAULT"
             /\ get_cstring(segments, a).err = "SEG_FAULT"
             /\ \A n \in {0, 2} : MemoryGet(segments, a, a + n).err = "SEG_FAULT"
       /\ ~executable(segments[i])
          => parse_code_at([engine EXCEPT !.segments = segments], a).err = "SEG_FAULT"

\* the values of the permission flag
Permissions == 0..(READ + WRITE + EXEC)

\* whatever the permission a segment is mapped with (mapped again, it is
\* the last of the table)
PermissionsChecked ==
    \A i \in 1..Len(engine.segments) : \A p \in Permissions :
       With(Remapped(engine.segments, i, p), LAMBDA segments :
            AccessChecked(segments, Len(segments)))

\* the run() step in progress is an EXEC syscall
ExecInProgress ==
    /\ task["run"].pos = "step_before"
    /\ task["run"].inst.mnemonic = "SYSCALL"
    /\ engine.regs["R8"] = 5

\* a segment lacking WRITE has lost bytes it held
ProtectedBytesChange ==
    \E i \in 1..Len(engine.segments) :
       /\ ~writable(engine.segments[i])
       /\ engine'.segments[i].mem # engine.segments[i].mem

(* C11 as stated: no instruction and no syscall changes a byte of a segment  *)
(* lacking WRITE.                                                            *)
ProtectedBytesKept == [][~ProtectedBytesChange]_vars

(* C11: permission bits are enforced on every access through the segment    *)
(* interface: a write (set32, or the slice assignment of INPUT and READFILE)*)
(* to a segment lacking WRITE, a read from a segment lacking READ and a     *)
(* fetch from a segment lacking EXEC fail with SEG_FAULT and change no      *)
(* byte; the bytes of a segment lacking WRITE change only in the program    *)
(* load of an EXEC syscall, which writes the code buffer directly.          *)
PermissionsEnforced ==
    /\ []PermissionsChecked
    /\ [][ProtectedBytesChange => ExecInProgress]_vars

\* a step of run() has failed on a store through R2 to a segment lacking WRITE
FaultedOnProtected ==
    /\ task["run"].pos = "error"
    /\ task["run"].err = "SEG_FAULT"
    /\ task["run"].inst.mnemonic = "MOV"
    /\ \E i \in 1..Len(engine.segments) :
          /\ ~writable(engine.segments[i])
          /\ engine.regs["R2"] >= engine.segments[i].start
          /\ engine.regs["R2"] < engine.segments[i].end

(***************************************************************************)
(* Properties of map and munmap                                            *)
(***************************************************************************)
\* the ranges [s1, e1) and [s2, e2) have an address in common
Intersect(s1, e1, s2, e2) == Max(s1, s2) < Min(e1, e2)

\* no two segments of the table have an address in common
NoOverlap(segments) ==
    \A i, j \in 1..Len(segments) :
       i # j => ~Intersect(segments[i].start, segments[i].end,
                           segments[j].start, segments[j].end)

\* a map call for a range that has an address in common with a segment of
\* the table raises ALLOC_FAIL and leaves the table as it is
CollidingMapRefused(segments) ==
    \A name \in MapNames, first \in MapStarts \cup {0, BSS_START - 1},
       size \in MapSizes \cup {1, UINT32_MAX} :
       (\E i \in 1..Len(segments) :
           Intersect(first, first + size, segments[i].start, segments[i].end))
       => map(segments, name, first, size, READ + WRITE + EXEC, <<>>)
             = [err |-> "ALLOC_FAIL", segments |-> segments]

(* C12: after any sequence of map and munmap calls no two mapped segments   *)
(* have intersecting address ranges, and a map call whose range intersects  *)
(* an existing segment fails with ALLOC_FAIL and leaves the table unchanged.*)
SegmentsNeverOverlap ==
    /\ NoOverlap(engine.segments)
    /\ CollidingMapRefused(engine.segments)

\* a map call has just been refused by a table in which the code segment
\* has been unmapped and mapped at another address and a segment a is mapped
MapRefusedAmongNew ==
    /\ task["ext"].sys = "map"
    /\ task["ext"].err = "ALLOC_FAIL"
    /\ \E i, j \in 1..Len(engine.segments) :
          /\ engine.segments[i].name = "code"
          /\ engine.segments[j].name = "a"
          /\ engine.segments[i].start # SEGMENTS.code.start
          /\ engine.segments[j].size > 0

(***************************************************************************)
(* Properties of the registers                                             *)
(***************************************************************************)
\* values a register write can be given: below zero, in the word, above it
WriteValues == {0 - UINT32_MAX - 2, 0 - 1, 0, UINT32_MAX, UINT32_MAX + 1, 2 * UINT32_MAX + 3}

(* C13: in every reachable state each register R1..R8, FP, SP and PC holds  *)
(* a value in [0, 2^w), w the width of the word: every register write is    *)
(* reduced mod 2^w, the PC updates of fetch, jumps, CALL and RET, the SP    *)
(* updates of push and pop at the ends of the address space and the results *)
(* of MUL and DIV on operands negative as signed included.                  *)
RegistersInWord ==
    /\ \A r \in REGISTERS : engine.regs[r] \in 0..UINT32_MAX
    /\ \A value \in WriteValues :
          /\ \A r \in REGISTERS \ {PROGRAM_COUNTER_REG_NAME} :
                set_reg(engine.regs, r, value).regs[r] = value % (UINT32_MAX + 1)
          /\ get_program_counter(set_program_counter(engine.regs, value))
                = value % (UINT32_MAX + 1)

\* a write has been reduced: a pop has taken SP over the top of the address
\* space, or a MUL or a DIV has given a part below zero
WriteWrapped ==
    /\ task["run"].pos = "step_after"
    /\ \/ /\ task["run"].inst.mnemonic = "POP"
          /\ engine.regs[STACK_POINTER_REG_NAME] = 0
       \/ /\ task["run"].inst.mnemonic \in {"MUL", "DIV"}
          /\ engine.regs["R2"] = UINT32_MAX

\* the operands naming PC: the register, and address expressions on it
PCOperands ==
    {Operand(Bytes(<<"P", "C">>)), Operand(Bytes(<<"[", "P", "C", "]">>)),
     Operand(Bytes(<<"[", "P", "C", "+", "4", "]">>)),
     Operand(Bytes(<<"[", " ", "P", "C", " ", "-", " ", "4", "]">>))}

\* another operand
OperandR1 == Operand(Bytes(<<"R", "1">>))

\* the instruction of a parsed line
Parsed(mnemonic, operands) ==
    [err |-> "OK", mnemonic |-> mnemonic, operands |-> operands, len |-> 0]

\* inst names PC in an operand
NamesPC(inst) == \E k \in 1..Len(inst.operands) : inst.operands[k] \in PCOperands

\* the instructions that evaluate or assign their operand naming PC before
\* anything else can fail
UsingPC ==
    {Parsed(m, <<p>>) : m \in {"JMP", "NOT", "PUSH", "SWAP", "COPY"}, p \in PCOperands}
    \cup {Parsed(m, ops) :
            m \in {"MOV"} \cup MemToMemOps \cup ShiftOps \cup MulDivOps \cup CompareOps,
            ops \in {<<p, OperandR1>> : p \in PCOperands}
                    \cup {<<OperandR1, p>> : p \in PCOperands}}

\* those that reach the stack first: a fault there comes first, and JZ and
\* JNZ leave the target of a jump not taken alone
UsingPCAfterStack ==
    {Parsed(m, <<p>>) : m \in {"POP", "CALL", "JZ", "JNZ"}, p \in PCOperands}

\* no operand naming PC is read or written
PCRefused ==
    /\ get_reg(engine.regs, PROGRAM_COUNTER_REG_NAME).err = "BAD_INST"
    /\ \A value \in WriteValues :
          set_reg(engine.regs, PROGRAM_COUNTER_REG_NAME, value)
             = [err |-> "BAD_INST", regs |-> engine.regs]
    /\ \A p \in PCOperands :
          /\ Eval(engine, p) = Ret("BAD_INST", engine, 0)
          /\ assign_value(engine, p, 0) = Ret("BAD_INST", engine, 0)
    /\ \A inst \in UsingPC : Execute(engine, inst) = Ret("BAD_INST", engine, 0)
    /\ \A inst \in UsingPCAfterStack :
          With(Execute(engine, inst), LAMBDA r :
               /\ get_program_counter(r.e.regs) = get_program_counter(engine.regs)
               /\ inst.mnemonic \in {"POP", "CALL"} => r.err # "OK"
               /\ r.err = "OK" => r.e.regs = stack_pop(engine).e.regs)

\* the steps that may change PC: the fetch of the next instruction, and the
\* execution of a jump, a CALL, a RET or an EXEC syscall
PCStep ==
    \/ task["run"].pos \in {"idle", "step_after"}
    \/ /\ task["run"].pos = "step_before"
       /\ \/ task["run"].inst.mnemonic \in {"JMP", "JZ", "JNZ", "CALL", "RET"}
          \/ ExecInProgress

(* C14 as stated: any instruction naming PC as an operand fails: no step    *)
(* whose instruction names PC comes to its end.                             *)
NamingPCFails == task["run"].pos = "step_after" => ~NamesPC(task["run"].inst)

(* C14: PC cannot be read or written through the generic register           *)
(* interface: get_reg and set_reg refuse PC, evaluating or assigning an     *)
(* operand naming PC (the register, or an address expression on it) fails   *)
(* with BAD_INST and changes nothing, and so does every instruction that    *)
(* uses such an operand, unless its stack access fails first; an operand    *)
(* the instruction does not use (the target of a JZ or JNZ not taken)       *)
(* raises nothing.  PC changes only in the fetch advance, JMP/JZ/JNZ, CALL, *)
(* RET and EXEC.                                                            *)
PCSegregated ==
    /\ []PCRefused
    /\ [][get_program_counter(engine'.regs) # get_program_counter(engine.regs)
             => PCStep]_vars

\* a MOV to PC has failed with BAD_INST
FaultedOnPC ==
    /\ task["run"].pos = "error"
    /\ task["run"].err = "BAD_INST"
    /\ task["run"].inst.mnemonic = "MOV"
    /\ NamesPC(task["run"].inst)

(***************************************************************************)
(* Properties of the stack, the calls and the jumps                        *)
(***************************************************************************)
\* the four bytes at addr lie in one readable and writable segment
WordIn(segments, addr) ==
    \E i \in 1..Len(segments) :
       /\ readable(segments[i]) /\ writable(segments[i])
       /\ addr >= segments[i].start
       /\ addr + 4 <= segments[i].end

\* the values of SP tried: what SP and the other registers hold, the ends of
\* every segment and the words next to them, the two ends of the address space
StackPointers ==
    {engine.regs[r] : r \in REGISTERS}
    \cup {0, 4, UINT32_MAX - 3}
    \cup UNION {{engine.segments[i].start, engine.segments[i].start + 4,
                 engine.segments[i].start + 3, engine.segments[i].end - 4,
                 to_u32(engine.segments[i].end)}
                : i \in 1..Len(engine.segments)}

\* the values pushed
PushValues == {0, 1, BYTE_BASE, UINT32_MAX - 1, UINT32_MAX, engine.regs["R1"]}

\* the engine with SP at sp
AtStack(sp) == [engine EXCEPT !.regs[STACK_POINTER_REG_NAME] = sp]

\* push(value) with SP at sp, then pop()
RoundTrip(sp, value) ==
    With(stack_push(AtStack(sp), value), LAMBDA pushed :
         /\ pushed.err = "OK"
         /\ pushed.e.regs[STACK_POINTER_REG_NAME] = to_u32(sp - 4)
         /\ MemoryGet(pushed.e.segments, to_u32(sp - 4), to_u32(sp - 4) + 4).val
               = [k \in 1..4 |-> (value \div (BYTE_BASE ^ (k - 1))) % BYTE_BASE]
         /\ With(stack_pop(pushed.e), LAMBDA popped :
                 /\ popped.err = "OK"
                 /\ popped.val = value
                 /\ popped.e.regs[STACK_POINTER_REG_NAME] = sp
                 /\ popped.e.segments = pushed.e.segments))

\* pop() with SP at sp gives the word at sp and adds 4 to SP
PopReads(sp) ==
    With(stack_pop(AtStack(sp)), LAMBDA popped :
         /\ popped.err = "OK"
         /\ popped.val = get32(engine.segments, sp).val
         /\ popped.e.regs[STACK_POINTER_REG_NAME] = to_u32(sp + 4)
         /\ popped.e.segments = engine.segments)

(* C15: for every word value v and every SP such that the word at SP-4 lies *)
(* in a readable and writable segment, push(v) then pop() returns v and     *)
(* leaves SP at its original value; push writes v little-endian at SP-4     *)
(* after decrementing SP by 4, and pop reads the word at SP before          *)
(* incrementing SP by 4.                                                    *)
PushPopRoundTrip ==
    \A sp \in StackPointers :
       /\ WordIn(engine.segments, to_u32(sp - 4))
          => \A value \in PushValues : RoundTrip(sp, value)
       /\ WordIn(engine.segments, sp) => PopReads(sp)

\* a POP has given R2 the 5 that the PUSH before it took from R1, and SP is
\* where Engine.init put it
PoppedThePushed ==
    /\ task["run"].pos = "step_after"
    /\ task["run"].inst.mnemonic = "POP"
    /\ engine.regs["R1"] = 5
    /\ engine.regs["R2"] = 5
    /\ engine.regs[STACK_POINTER_REG_NAME]
          = to_u32(SEGMENTS.stack.start + SEGMENTS.stack.size - 16)

\* the targets of the calls tried: an address, a register, the top of stack
CallTargets ==
    {Operand(Bytes(<<"0", "x", "4", "0", "0", "0", "2", "0">>)), OperandR1,
     Operand(Bytes(<<"[", "S", "P", "]">>))}

\* CALL target with SP at sp, then RET
CallThenRet(sp, target) ==
    With(Execute(AtStack(sp), Parsed("CALL", <<target>>)), LAMBDA called :
         /\ called.err = "OK"
         /\ called.e.regs[STACK_POINTER_REG_NAME] = to_u32(sp - 4)
         /\ get32(called.e.segments, to_u32(sp - 4)).val = get_program_counter(engine.regs)
         /\ get_program_counter(called.e.regs)
               = Eval([called.e EXCEPT !.regs = [AtStack(sp).regs EXCEPT
                                                   ![STACK_POINTER_REG_NAME] = to_u32(sp - 4)]],
                      target).val
         /\ With(Execute(called.e, Parsed("RET", <<>>)), LAMBDA returned :
                 /\ returned.err = "OK"
                 /\ get_program_counter(returned.e.regs) = get_program_counter(engine.regs)
                 /\ returned.e.regs[STACK_POINTER_REG_NAME] = sp))

\* in every state: CALL pushes PC, which the fetch has advanced, and sets PC
\* to the target; RET then gives PC and SP back
CallsReturn ==
    \A sp \in StackPointers :
       WordIn(engine.segments, to_u32(sp - 4))
       => \A target \in CallTargets : CallThenRet(sp, target)

\* the program of the engine is that of scenario S5
RunsS5 ==
    SubSeq(engine.segments[SegmentNamed(engine.segments, "code")].mem,
           1, Len(ProgramCallRet)) = ProgramCallRet

\* run() has returned after the EXIT syscall, the exit code is 42
ExitedWith42 ==
    /\ task["run"].pos = "done"
    /\ task["run"].exited
    /\ engine.state = "STOPPED"
    /\ engine.exit_code = 42

(* C16: CALL pushes the address of the instruction that follows the CALL    *)
(* line (the PC the fetch has advanced) and sets PC to eval(target); a RET  *)
(* executed with SP at its value just after the CALL sets PC to the         *)
(* instruction following the CALL and restores SP to its value before the   *)
(* CALL; so scenario S5 terminates through EXIT with exit code 42.          *)
CallRetS5 ==
    /\ []CallsReturn
    /\ [](RunsS5 /\ task["run"].pos = "done" => ExitedWith42)
    /\ (RunsS5 ~> ExitedWith42)

\* S5 has come to its end: the RET has brought PC back to the line after the
\* CALL, and the EXIT that follows has stopped the engine with code 42
S5Exited == RunsS5 /\ ExitedWith42 /\ engine.regs["R1"] = 42

\* the relative jumps tried: the text of the operand and the offset it means
RelativeJumps ==
    {[text |-> Bytes(<<"+", "0">>), offset |-> 0],
     [text |-> Bytes(<<"+", "5">>), offset |-> 5],
     [text |-> Bytes(<<"-", "0">>), offset |-> 0],
     [text |-> Bytes(<<"-", "1">>), offset |-> 0 - 1],
     [text |-> Bytes(<<"-", "7">>), offset |-> 0 - 7],
     [text |-> Bytes(<<"+", "0", "x", "1", "0">>), offset |-> 16],
     [text |-> Bytes(<<"-", "0", "x", "5", "0", "0", "0", "0", "0">>),
      offset |-> 0 - BSS_START]}

\* the absolute jumps tried: immediates without sign and the address they mean
AbsoluteJumps ==
    {[text |-> Bytes(<<"7">>), address |-> 7],
     [text |-> Bytes(<<"0", "x", "4", "0", "0", "0", "2", "0">>),
      address |-> CODE_START + 32]}

\* JMP on a register or on an address that can be read sets PC to its value
JumpsToValue ==
    \A target \in {OperandR1, Operand(Bytes(<<"S", "P">>)),
                   Operand(Bytes(<<"[", "S", "P", "]">>)),
                   Operand(Bytes(<<"[", "R", "2", "]">>))} :
       Eval(engine, target).err = "OK"
       => Execute(engine, Parsed("JMP", <<target>>))
             = Ret("OK", [engine EXCEPT !.regs[PROGRAM_COUNTER_REG_NAME] =
                                           Eval(engine, target).val], 0)

\* JMP on an immediate without sign sets PC to it
JumpsToAddress ==
    \A j \in AbsoluteJumps :
       Execute(engine, Parsed("JMP", <<Operand(j.text)>>))
          = Ret("OK", [engine EXCEPT !.regs[PROGRAM_COUNTER_REG_NAME] = j.address], 0)

\* JMP on an immediate with a sign sets PC to PC + offset mod 2^w
JumpsByOffset ==
    \A j \in RelativeJumps :
       Execute(engine, Parsed("JMP", <<Operand(j.text)>>))
          = Ret("OK",
                [engine EXCEPT !.regs[PROGRAM_COUNTER_REG_NAME] =
                   (get_program_counter(engine.regs) + j.offset) % (UINT32_MAX + 1)], 0)

\* the address of the line after the line that run() is executing, when it is
\* in the code segment as Engine.init loaded it: PC, which the fetch advanced
NextLine == get_program_counter(engine.regs)

\* a JMP +0 goes on with the next line; a JMP -7, a line of 7 bytes, with itself
FallsThroughOrBack ==
    /\ task["run"].pos = "step_before"
    /\ task["run"].inst.mnemonic = "JMP"
    /\ task'["run"].pos = "step_after"
    => /\ task["run"].inst.operands[1].data = Bytes(<<"+", "0">>)
          => get_program_counter(engine'.regs) = NextLine
       /\ task["run"].inst.operands[1].data = Bytes(<<"-", "7">>)
          => get_program_counter(engine'.regs) = NextLine - task["run"].inst.len

(* C17: JMP with a REGISTER operand, an ADDRESS operand or an IMMEDIATE      *)
(* without sign sets PC to eval(op); JMP with an IMMEDIATE whose text       *)
(* starts with + or - sets PC to (P + signed offset) mod 2^w, P the PC when *)
(* the jump executes, the address of the line following the jump: JMP +0    *)
(* falls through to the next line and JMP -k moves k bytes backwards.       *)
JumpSetsPC ==
    /\ [](JumpsToValue /\ JumpsToAddress /\ JumpsByOffset)
    /\ [][FallsThroughOrBack]_vars

\* the JMP -7 of the second line has jumped to its own line
JumpedBack ==
    /\ task["run"].pos = "step_after"
    /\ task["run"].inst.mnemonic = "JMP"
    /\ task["run"].inst.operands[1].data = Bytes(<<"-", "7">>)
    /\ get_program_counter(engine.regs) = SEGMENTS.code.start + 7

\* the offset of a relative jump, 0 for another instruction
JumpOffset(inst) ==
    IF /\ inst.mnemonic \in {"JMP", "JZ", "JNZ"}
       /\ Len(inst.operands) >= 1
       /\ inst.operands[1].type = "IMMEDIATE"
       /\ inst.operands[1].data[1] \in {43, 45}
    THEN ParseInt(inst.operands[1].data, TRUE).val
    ELSE 0

(* C18: a relative JMP, JZ or JNZ whose resulting PC, the current PC plus   *)
(* the signed offset, is negative fails with BAD_INST and does not set PC   *)
(* to any wrapped address.                                                  *)
NegativeJumpRefused ==
    /\ task["run"].pos = "step_before"
    /\ get_program_counter(engine.regs) + JumpOffset(task["run"].inst) < 0
    => /\ Execute(engine, task["run"].inst).err \in {"BAD_INST", "SEG_FAULT"}
       /\ get_program_counter(Execute(engine, task["run"].inst).e.regs)
             = get_program_counter(engine.regs)

(***************************************************************************)
(* Properties of the searches in a segment                                 *)
(***************************************************************************)
(* C19: when no newline occurs between PC and the end of the code segment   *)
(* the fetch fails with BAD_INST and no instruction is executed, whatever   *)
(* the bytes from PC onward: a step that run() has fetched and is about to  *)
(* execute has PC just after the delimiter that ends its line.              *)
FetchedToDelimiter ==
    task["run"].pos = "step_before"
    => MemoryGet(engine.segments, get_program_counter(engine.regs) - 1,
                 get_program_counter(engine.regs))
          = [err |-> "OK", val |-> <<INST_DELIMITER>>]

\* the address of the first zero byte of seg at or after addr, the end of seg
\* when there is none
FirstNul(seg, addr) ==
    IF \E a \in addr..(seg.end - 1) : seg.mem[a - seg.start + 1] = 0
    THEN CHOOSE a \in addr..(seg.end - 1) :
            /\ seg.mem[a - seg.start + 1] = 0
            /\ \A b \in addr..(a - 1) : seg.mem[b - seg.start + 1] # 0
    ELSE seg.end

(* C20: get_cstring(a) returns the bytes from a up to but not including the *)
(* first NUL at or after a in the segment owning a, and all the bytes from  *)
(* a to the end of the segment, its last byte included, when the segment    *)
(* has no NUL from a onward.                                                *)
CStringToNulOrEnd ==
    \A r \in REGISTERS : \A i \in 1..Len(engine.segments) :
       /\ readable(engine.segments[i])
       /\ engine.regs[r] >= engine.segments[i].start
       /\ engine.regs[r] < engine.segments[i].end
       => get_cstring(engine.segments, engine.regs[r])
             = [err |-> "OK",
                val |-> SubSeq(engine.segments[i].mem,
                               engine.regs[r] - engine.segments[i].start + 1,
                               FirstNul(engine.segments[i], engine.regs[r])
                                  - engine.segments[i].start)]


(***************************************************************************)
(* C21: DIV and DIVu by a register that holds 0                            *)
(***************************************************************************)
\* the frame is in step()'s except clause for a DIV or DIVu of two
\* registers whose divisor, operand[1], holds 0
DividedByZero ==
    /\ task["run"].pos = "error"
    /\ task["run"].inst.mnemonic \in {"DIV", "DIVu"}
    /\ BothRegisters(task["run"].inst) = "OK"
    /\ EvalOperand(engine, task["run"].inst, 1).val = 0

\* C21: a DIV or DIVu whose divisor register holds 0 is reported to
\* ERROR/before with the code BAD_INST
DivideByZeroIsBadInst == DividedByZero => task["run"].err = "BAD_INST"


(***************************************************************************)
(* C22: MULu on two registers                                              *)
(***************************************************************************)
\* the registers an operand of MULu can name: R1..R8, FP and SP
MulRegisters ==
    {Bytes(<<"R", "1">>), Bytes(<<"R", "2">>), Bytes(<<"R", "3">>), Bytes(<<"R", "4">>),
     Bytes(<<"R", "5">>), Bytes(<<"R", "6">>), Bytes(<<"R", "7">>), Bytes(<<"R", "8">>),
     Bytes(<<"F", "P">>), Bytes(<<"S", "P">>)}

\* the values the two registers hold: products of one word and of two
MulPairs ==
    ({0, 7} \X {1, 134217729, UINT32_MAX})
    \cup ({6, 134217729, UINT32_MAX} \X {7})
    \cup {<<x, x>> : x \in {0, 3, 32769}}

\* the engine with u in register a and v in register b
Holding(a, u, b, v) == [engine EXCEPT !.regs[Str(a)] = u, !.regs[Str(b)] = v]

\* MULu a, b on the engine that holds u in a and v in b
MuluOn(a, u, b, v) ==
    Execute(Holding(a, u, b, v), Parsed("MULu", <<Operand(a), Operand(b)>>))

\* MULu on two distinct registers leaves the lower word of the product in
\* the first and the higher word in the second, and changes nothing else
MuluDistinct ==
    \A a \in MulRegisters, b \in MulRegisters, p \in MulPairs :
       a # b =>
         With(MuluOn(a, p[1], b, p[2]), LAMBDA r :
              /\ r.err = "OK"
              /\ r.e = [engine EXCEPT
                          !.regs[Str(a)] = (p[1] * p[2]) % (UINT32_MAX + 1),
                          !.regs[Str(b)] = (p[1] * p[2]) \div (UINT32_MAX + 1)]
              /\ p[1] * p[2]
                   = r.e.regs[Str(b)] * (UINT32_MAX + 1) + r.e.regs[Str(a)])

\* MULu on one register twice leaves in it the higher word of its square,
\* the second assignment
MuluSame ==
    \A a \in MulRegisters, p \in MulPairs :
       p[1] = p[2] =>
         MuluOn(a, p[1], a, p[1])
            = Ret("OK", [engine EXCEPT
                           !.regs[Str(a)] = (p[1] * p[1]) \div (UINT32_MAX + 1)], 0)

\* run() executes a MULu to its end
MuluStep ==
    /\ task["run"].pos = "step_before"
    /\ task["run"].inst.mnemonic = "MULu"
    /\ task'["run"].pos = "step_after"

\* the product of the two operand registers of the instruction of run()
MuluProduct ==
    EvalOperand(engine, task["run"].inst, 0).val
       * EvalOperand(engine, task["run"].inst, 1).val

\* the register an operand of the instruction of run() names
MuluRegister(k) == Str(task["run"].inst.operands[k + 1].data)

\* the step of a MULu leaves the lower word in operand[0], and the higher
\* word in operand[1]
MuluLower == engine'.regs[MuluRegister(0)] = MuluProduct % (UINT32_MAX + 1)
MuluHigher == engine'.regs[MuluRegister(1)] = MuluProduct \div (UINT32_MAX + 1)

(* C22 as stated: after MULu A, B operand[0] holds (u*v) mod 2^w and        *)
(* operand[1] holds (u*v) div 2^w, whether A and B are distinct or the same *)
(* register.                                                                *)
MuluBothWords == [][MuluStep => MuluLower /\ MuluHigher]_vars

(* C22: after MULu A, B where the registers held u and v, B holds (u*v) div *)
(* 2^w; for every choice of two distinct registers among R1..R8, FP, SP, A  *)
(* holds (u*v) mod 2^w, so that u*v = B*2^w + A; when A and B are the same  *)
(* register it holds (u*u) div 2^w.                                         *)
MuluWords ==
    /\ [](MuluDistinct /\ MuluSame)
    /\ [][MuluStep => /\ MuluHigher
                      /\ MuluRegister(0) # MuluRegister(1) => MuluLower]_vars

\* run() has executed MULu R1,R2 on 0x8000001 and 6: the product takes two words
MultipliedTwoWords ==
    /\ task["run"].pos = "step_after"
    /\ task["run"].inst.mnemonic = "MULu"
    /\ task["run"].inst.operands[1].data # task["run"].inst.operands[2].data
    /\ engine.regs["R1"] = 6
    /\ engine.regs["R2"] = 3


(***************************************************************************)
(* C23: the EXEC syscall                                                   *)
(***************************************************************************)
\* breakpoint lists the engine may hold when EXEC is called
BreakpointLists ==
    {<<>>, <<SEGMENTS.code.start>>, <<SEGMENTS.code.start + 7, SEGMENTS.code.start + 7>>}

\* the pointers EXEC is called with: R1, and the byte after ProgramExec
NamePointers == {engine.regs["R1"], SEGMENTS.code.start + 33}

\* the value of SP and FP after Engine.init: 16 below the top of the stack
StackBoot == UINT32_MAX - 15

\* the segments with content copied to the start of the code segment, the
\* bytes after it kept
Loaded(segments, content) ==
    [i \in 1..Len(segments) |->
       IF segments[i].name # "code" THEN segments[i]
       ELSE [segments[i] EXCEPT
               !.mem = content \o SubSeq(@, Len(content) + 1, Len(@))]]

\* the registers after EXEC found its file and R8 took the result
ExecRegisters(regs) ==
    [regs EXCEPT ![PROGRAM_COUNTER_REG_NAME] = SEGMENTS.code.start,
                 ![STACK_POINTER_REG_NAME] = StackBoot,
                 ![BASE_POINTER_REG_NAME] = StackBoot,
                 !["R8"] = UINT32_MAX]

\* syscall_exec on an engine holding any breakpoints: with the name of a
\* file it loads the content, resets PC, SP and FP and clears the
\* breakpoints; with another name it changes nothing; it returns -1
ExecReinitialises ==
    \A bps \in BreakpointLists : \A ptr \in NamePointers :
       With([engine EXCEPT !.breakpoints = bps], LAMBDA e :
       With(CString(e, ptr), LAMBDA name :
            name.err = "OK" =>
              With(syscall_exec(e, ptr), LAMBDA r :
                   /\ r.err = "OK"
                   /\ r.val = 0 - 1
                   /\ r.e.files = e.files
                   /\ IF HasFile(e.files, name.val)
                      THEN r.e = [e EXCEPT
                                    !.breakpoints = <<>>,
                                    !.segments = Loaded(e.segments, e.files[name.val]),
                                    !.regs = [ExecRegisters(e.regs) EXCEPT
                                                !["R8"] = e.regs["R8"]]]
                      ELSE r.e = e)))

\* the name R1 points to
ExecName == CString(engine, engine.regs["R1"]).val

\* the step of an EXEC syscall: R8 takes -1; with the name of a file the
\* registers PC, SP and FP are reset and the files are kept
ExecStep ==
    ExecInProgress /\ task'["run"].pos = "step_after"
    => IF HasFile(engine.files, ExecName)
       THEN /\ engine' = [engine EXCEPT
                            !.breakpoints = <<>>,
                            !.segments = Loaded(engine.segments, engine.files[ExecName]),
                            !.regs = ExecRegisters(engine.regs)]
       ELSE engine' = [engine EXCEPT !.regs["R8"] = UINT32_MAX]

\* run() is at the end of the step of an EXEC that found its file
ExecDone ==
    /\ task["run"].pos = "step_after"
    /\ task["run"].inst.mnemonic = "SYSCALL"
    /\ get_program_counter(engine.regs) = SEGMENTS.code.start
    /\ engine.regs["R8"] = UINT32_MAX
    /\ HasFile(engine.files, ExecName)

\* content has a delimiter; its first line, without the delimiter (all of
\* it when it has none)
Delimited(content) == \E i \in 1..Len(content) : content[i] = INST_DELIMITER
FirstLine(content) ==
    IF ~Delimited(content) THEN content
    ELSE SubSeq(content, 1,
                (CHOOSE i \in 1..Len(content) :
                    /\ content[i] = INST_DELIMITER
                    /\ \A j \in 1..(i - 1) : content[j] # INST_DELIMITER) - 1)

\* the instruction run() fetches next is the line at PC of the code segment
FetchesAtPC ==
    /\ task["run"].pos = "step_after"
    /\ task["run"].inst.mnemonic = "SYSCALL"
    /\ task'["run"].pos = "step_before"
    => task'["run"].inst
          = parse_code_at(engine, get_program_counter(engine.regs)).inst

\* after an EXEC that found its file, the instruction fetched next is the
\* first line of the file's content
ExecFetchesFirstLine ==
    ExecDone /\ task'["run"].pos = "step_before"
    => task'["run"].inst = Instruction(FirstLine(engine.files[ExecName]))

ReadNames == {engine.regs["R1"], SEGMENTS.code.start + 58, SEGMENTS.bss.start}
ReadBuffers ==
    {engine.regs["R2"], 0, SEGMENTS.code.start, SEGMENTS.bss.start + 1,
     SEGMENTS.bss.start + SEGMENTS.bss.size - 2,
     SEGMENTS.bss.start + SEGMENTS.bss.size - 1, SEGMENTS.stack.start, UINT32_MAX}
ReadLengths == {0, 1, 2, 3, UINT32_MAX}

\* the contents a file may have
ReadContents == {<<>>, Bytes(<<"h", "i">>), Bytes(<<"x", "y", "z">>)}

\* the n bytes from buf lie in one segment that can be written
InWritable(segments, buf, n) ==
    \E i \in 1..Len(segments) :
       /\ writable(segments[i])
       /\ segments[i].start <= buf
       /\ buf + n <= segments[i].end

\* segments with data at the addresses from buf, every other byte kept
Patched(segments, buf, data) ==
    [i \in 1..Len(segments) |->
       [segments[i] EXCEPT
          !.mem = [k \in 1..segments[i].size |->
                     IF /\ segments[i].start + k - 1 >= buf
                        /\ segments[i].start + k - 1 < buf + Len(data)
                     THEN data[segments[i].start + k - buf]
                     ELSE segments[i].mem[k]]]]

\* syscall_readfile on engine e, whose file name.val holds content
ReadfileOn(e, ptr, name, buf, length) ==
    With(syscall_readfile(e, ptr, buf, length), LAMBDA r :
    With(Min(length, Len(e.files[name])), LAMBDA n :
         /\ r.err = "OK" =>
              /\ r.val = n
              /\ r.e = [e EXCEPT
                          !.segments = Patched(e.segments, buf,
                                               SubSeq(e.files[name], 1, n))]
         /\ r.err # "OK" => r.e = e
         /\ InWritable(e.segments, buf, n) => r.err = "OK"))

\* READFILE of a file copies min(length, size) bytes to buf and returns
\* their number; of a name that is no file it changes nothing and returns -1
ReadfileCopies ==
    \A ptr \in ReadNames : \A buf \in ReadBuffers : \A length \in ReadLengths :
       With(CString(engine, ptr), LAMBDA name :
            name.err = "OK" =>
              /\ ~HasFile(engine.files, name.val) =>
                   syscall_readfile(engine, ptr, buf, length) = Ret("OK", engine, 0 - 1)
              /\ \A content \in ReadContents :
                    ReadfileOn([engine EXCEPT !.files = insert(@, name.val, content)],
                               ptr, name.val, buf, length))

\* the step in progress is a READFILE syscall
ReadfileInProgress ==
    /\ task["run"].pos = "step_before"
    /\ task["run"].inst.mnemonic = "SYSCALL"
    /\ engine.regs["R8"] = 3

\* the name R1 points to is of a file
ReadsFile == HasFile(engine.files, CString(engine, engine.regs["R1"]).val)

\* the step of a READFILE: R8 takes the count, or -1 as a word; memory is
\* patched with the first bytes of the file, or kept; nothing else changes
ReadfileStep ==
    ReadfileInProgress /\ task'["run"].pos = "step_after"
    => IF ReadsFile
       THEN With(engine.files[CString(engine, engine.regs["R1"]).val], LAMBDA content :
            With(Min(engine.regs["R3"], Len(content)), LAMBDA n :
                 engine' = [engine EXCEPT
                              !.regs["R8"] = n,
                              !.segments = Patched(engine.segments, engine.regs["R2"],
                                                   SubSeq(content, 1, n))]))
       ELSE engine' = [engine EXCEPT !.regs["R8"] = UINT32_MAX]

(* C24: a SYSCALL with R8 = 3 naming an existing file copies exactly the    *)
(* first min(R3, file size) bytes of the file to memory starting at R2,     *)
(* sets R8 to that count and leaves every other memory byte and the file    *)
(* unchanged; when the name is of no file it changes no memory and sets R8  *)
(* to -1 as a word.                                                         *)
ReadfileReads == []ReadfileCopies /\ [][ReadfileStep]_vars

\* run() has read the two bytes of the file into bss, having asked for three
ReadTheFile ==
    /\ task["run"].pos = "step_after"
    /\ task["run"].inst.mnemonic = "SYSCALL"
    /\ engine.regs["R3"] = 3
    /\ engine.regs["R8"] = 2
    /\ SubSeq(engine.segments[SegmentNamed(engine.segments, "bss")].mem, 1, 4)
          = <<0, 104, 105, 0>>


(***************************************************************************)
(* C25: a syscall number that is none of 0..7                              *)
(***************************************************************************)
\* numbers R8 may hold that are no syscall
UnknownSyscalls == {8, 9, 128, UINT32_MAX}

\* the hooks of the syscalls
SyscallHookNames ==
    {event \o side : event \in {"INPUT", "OUTPUT", "EXIT", "DOWNLOAD"},
                     side \in {"/before", "/after"}}

\* the frame of run() as STEP/before of a SYSCALL returns
AtSyscall ==
    [task["run"] EXCEPT !.pos = "step_before", !.inst = Parsed("SYSCALL", <<>>),
                        !.fired = <<"STEP/before">>]

\* resolve_inst on a SYSCALL with such a number in R8 raises BAD_INST and
\* changes nothing in the engine
UnknownSyscallRefused ==
    \A number \in UnknownSyscalls : \A random \in RandomValues :
       With([engine EXCEPT !.regs["R8"] = number], LAMBDA e :
            AfterStepBefore(e, AtSyscall, random)
               = Out(e, [AtSyscall EXCEPT
                           !.pos = "error", !.err = "BAD_INST",
                           !.fired = <<"STEP/before", "ERROR/before">>]))

\* the step in progress is a SYSCALL whose number is none of 0..7
UnknownSyscallInProgress ==
    /\ task["run"].pos = "step_before"
    /\ task["run"].inst.mnemonic = "SYSCALL"
    /\ engine.regs["R8"] \notin 0..7

\* such a step goes to the except clause with BAD_INST, the engine as it was
\* and no hook of a syscall fired
UnknownSyscallStep ==
    UnknownSyscallInProgress
    => /\ task'["run"].pos = "error"
       /\ task'["run"].err = "BAD_INST"
       /\ engine' = engine
       /\ \A k \in 1..Len(task'["run"].fired) : task'["run"].fired[k] \notin SyscallHookNames

(* C25: a SYSCALL whose R8 is not one of 0..7 fails with BAD_INST: no       *)
(* register (R8 included; PC was advanced by the fetch), no memory byte and *)
(* no file changes, and no INPUT, OUTPUT, EXIT or DOWNLOAD hook fires.      *)
UnknownSyscallFails == []UnknownSyscallRefused /\ [][UnknownSyscallStep]_vars

\* run() is in the except clause of a SYSCALL with 8 in R8
FailedOnSyscall8 ==
    /\ task["run"].pos = "error"
    /\ task["run"].inst.mnemonic = "SYSCALL"
    /\ task["run"].err = "BAD_INST"
    /\ engine.regs["R8"] = 8
    /\ task["run"].fired = <<"STEP/before", "ERROR/before">>


(***************************************************************************)
(* C26: the size of the files                                              *)
(***************************************************************************)
(* C26: in every reachable state every file held by the FileManager has a   *)
(* content of at most FILE_SIZE_LIMIT bytes.                                *)
FilesWithinLimit ==
    \A name \in DOMAIN engine.files : Len(engine.files[name]) <= FILE_SIZE_LIMIT


(***************************************************************************)
(* C27: the exit status of a run                                           *)
(***************************************************************************)
\* run() has returned through its except clause: an error escaped step()
RunEndedByError == task["run"].pos = "done" /\ task["run"].err # "OK"

(* C27: a run that ends because of an error escaping step() ends with an    *)
(* exit status other than 0, the status of a run that ended through EXIT    *)
(* with code 0.                                                             *)
FatalErrorExitsNonZero == RunEndedByError => engine.exit_code # 0


(***************************************************************************)
(* C28: scenario S1                                                        *)
(***************************************************************************)
\* the end of line k of a program: the offset after its delimiter
LineEnd(program, k) ==
    CHOOSE i \in 1..Len(program) :
       /\ program[i] = INST_DELIMITER
       /\ Cardinality({j \in 1..i : program[j] = INST_DELIMITER}) = k

\* line k of a program, without its delimiter
Line(program, k) ==
    SubSeq(program, IF k = 1 THEN 1 ELSE LineEnd(program, k - 1) + 1,
           LineEnd(program, k) - 1)

\* the program of the engine is that of scenario S1
RunsS1 ==
    SubSeq(engine.segments[SegmentNamed(engine.segments, "code")].mem,
           1, Len(ProgramS1)) = ProgramS1

\* the instructions of the eight lines of S1 and the offsets of their ends
S1Instructions == [k \in 1..8 |-> Instruction(Line(ProgramS1, k))]
S1Ends == [k \in 1..8 |-> LineEnd(ProgramS1, k)]

\* run() is in the step of line k of S1: the instruction is that of the
\* line, and PC is at the line after it
S1At(k) ==
    /\ task["run"].pos \in StepPositions
    /\ task["run"].inst = S1Instructions[k]
    /\ get_program_counter(engine.regs) = SEGMENTS.code.start + S1Ends[k]

\* the steps of S1 follow the lines: the first step is that of line 1, the
\* step after that of line k is that of line k + 1, and after the step of
\* line 8 run() returns
S1InOrder ==
    /\ task["run"].pos = "idle" /\ task'["run"].pos # "idle" => S1At(1)'
    /\ \A k \in 1..8 :
          S1At(k) => \/ S1At(k)'
                     \/ k < 8 /\ task["run"].pos = "step_after" /\ S1At(k + 1)'
                     \/ k = 8 /\ task["run"].pos = "step_after"
                              /\ task'["run"].pos = "done"
    /\ task["run"].pos \in StepPositions => \E k \in 1..8 : S1At(k)

\* run() has returned after the EXIT syscall: the engine is stopped, the
\* exit code is 12, SP is where Engine.init put it and no error was reported
ExitedWith12 ==
    /\ task["run"].pos = "done"
    /\ task["run"].exited
    /\ task["run"].err = "OK"
    /\ engine.state = "STOPPED"
    /\ engine.exit_code = 12
    /\ engine.regs[STACK_POINTER_REG_NAME] = StackBoot

(* C28: running S1 from the boot state executes its eight instructions in   *)
(* order, each once, and terminates with state STOPPED, exit_code 12 and SP *)
(* at its boot value, with no error event.                                  *)
RunsS1ToExit ==
    /\ [][RunsS1 => S1InOrder]_vars
    /\ [](RunsS1 => task["run"].pos # "error")
    /\ [](RunsS1 /\ task["run"].pos = "done" => ExitedWith12)
    /\ (RunsS1 ~> ExitedWith12)

\* S1 has come to its end: 12 went through the stack to R3, R1 and the exit
\* code
S1Exited ==
    /\ RunsS1
    /\ ExitedWith12
    /\ engine.regs["R3"] = 12
    /\ engine.regs["R2"] = 7
    /\ engine.regs["R8"] = 12


(***************************************************************************)
(* C29: scenario S4, S3 with LTu                                           *)
(***************************************************************************)
\* the program of the engine is that of scenario S4
RunsS4 ==
    SubSeq(engine.segments[SegmentNamed(engine.segments, "code")].mem,
           1, Len(ProgramS4)) = ProgramS4

\* the instructions of the ten lines of S4 and the offsets of their ends
S4Instructions == [k \in 1..10 |-> Instruction(Line(ProgramS4, k))]
S4Ends == [k \in 1..10 |-> LineEnd(ProgramS4, k)]

\* run() executes line k of S4 to its end
S4Step(k) ==
    /\ RunsS4
    /\ task["run"].pos = "step_before"
    /\ task["run"].inst = S4Instructions[k]
    /\ task'["run"].pos = "step_after"

\* the word on top of the stack
StackTop(e) == get32(e.segments, e.regs[STACK_POINTER_REG_NAME]).val

\* LTu R1, R2 compares the greatest word with 1 and pushes 0
S4Compares ==
    S4Step(3) => /\ engine.regs["R1"] = UINT32_MAX
                 /\ engine.regs["R2"] = 1
                 /\ engine'.regs[STACK_POINTER_REG_NAME]
                      = engine.regs[STACK_POINTER_REG_NAME] - 4
                 /\ StackTop(engine') = 0

\* JZ +3 pops the 0 and takes the jump: PC is 3 bytes after the start of
\* line 5
S4Jumps ==
    S4Step(4) => /\ StackTop(engine) = 0
                 /\ engine'.regs[STACK_POINTER_REG_NAME]
                      = engine.regs[STACK_POINTER_REG_NAME] + 4
                 /\ get_program_counter(engine'.regs)
                      = SEGMENTS.code.start + S4Ends[4] + 3

\* the fetch after the jump: the bytes from PC to the delimiter are no
\* instruction, step() reports BAD_INST
S4FetchFails ==
    /\ RunsS4
    /\ task["run"].pos = "step_after"
    /\ task["run"].inst = S4Instructions[4]
    => /\ task'["run"].pos = "error"
       /\ task'["run"].err = "BAD_INST"
       /\ parse_code_at(engine, SEGMENTS.code.start + S4Ends[4] + 3).err = "BAD_INST"

\* run() has returned from S4: through its except clause, after BAD_INST,
\* without an EXIT, the exit code the 0 of __init__
S4Failed ==
    /\ task["run"].pos = "done"
    /\ task["run"].err = "BAD_INST"
    /\ ~task["run"].exited
    /\ engine.state = "STOPPED"
    /\ engine.exit_code = 0
    /\ get_program_counter(engine.regs) = SEGMENTS.code.start + S4Ends[4] + 3

(* C29 as stated: S4 terminates through EXIT with exit code 0 and no error  *)
(* event.                                                                   *)
S4EndsThroughExit ==
    RunsS4 /\ task["run"].pos = "done"
    => task["run"].exited /\ task["run"].err = "OK" /\ engine.exit_code = 0

(* C29: in S4 the comparison of the greatest word and 1 by LTu pushes 0 and *)
(* JZ +3 takes the jump, to the address 3 bytes after the start of the line *)
(* that follows the JZ; the bytes there decode to no instruction, so the    *)
(* next fetch fails with BAD_INST: an error event fires, no EXIT syscall is *)
(* executed, and the run ends stopped with the exit code 0 of __init__.     *)
S4JumpsIntoLine ==
    /\ [][S4Compares /\ S4Jumps /\ S4FetchFails]_vars
    /\ [](RunsS4 => ~task["run"].exited)
    /\ [](RunsS4 /\ task["run"].pos = "done" => S4Failed)
    /\ (RunsS4 ~> S4Failed)

\* S4 has come to its end
S4Ended == RunsS4 /\ S4Failed /\ engine.regs["R1"] = UINT32_MAX /\ engine.regs["R8"] = 0


(***************************************************************************)
(* C30: instructions that fail                                             *)
(***************************************************************************)
\* the step of run() in progress fails in the execution of its instruction
StepFails == task["run"].pos = "step_before" /\ task'["run"].pos = "error"

\* the registers other than PC, and the memory, are as they were
NothingWritten ==
    /\ \A r \in REGISTERS \ {PROGRAM_COUNTER_REG_NAME} : engine'.regs[r] = engine.regs[r]
    /\ engine'.segments = engine.segments

(* C30: an instruction whose execution fails with an error has no partial   *)
(* effect: every register other than PC and every memory byte has the value *)
(* it had before the step.                                                  *)
FailedInstructionWritesNothing == [][StepFails => NothingWritten]_vars


(***************************************************************************)
(* C31: operand forms that are not allowed                                 *)
(***************************************************************************)
\* the instructions that assign to operand[0]
AssigningOps == {"MOV", "NOT"} \cup MemToMemOps \cup ShiftOps

\* inst has one of the operand forms resolve_inst or assign_value refuses:
\* two addresses for MOV, AND, OR, XOR, ADD, SUB; an address as the count of
\* a shift or rotate; an operand of MUL, MULu, DIV, DIVu that is no register;
\* an immediate as the destination of an assigning instruction
DisallowedForm(inst) ==
    /\ Len(inst.operands) = (IF inst.mnemonic = "NOT" THEN 1 ELSE 2)
    /\ \/ /\ inst.mnemonic \in {"MOV"} \cup MemToMemOps
          /\ OperandType(inst, 0) = "ADDRESS"
          /\ OperandType(inst, 1) = "ADDRESS"
       \/ /\ inst.mnemonic \in ShiftOps
          /\ OperandType(inst, 1) = "ADDRESS"
       \/ /\ inst.mnemonic \in MulDivOps
          /\ \E k \in 0..1 : OperandType(inst, k) # "REGISTER"
       \/ /\ inst.mnemonic \in AssigningOps
          /\ OperandType(inst, 0) = "IMMEDIATE"

\* C31: an instruction with an operand form that is not allowed (two
\* addresses, an address as a shift count, a non-register operand of MUL or
\* DIV, an immediate destination) is reported with the code BAD_INST
DisallowedFormIsBadInst ==
    (task["run"].pos = "error" /\ DisallowedForm(task["run"].inst))
    => task["run"].err = "BAD_INST"


(***************************************************************************)
(* C32: the advance of PC                                                  *)
(***************************************************************************)
\* the byte at addr, in the segment that owns addr
ByteAt(segments, addr) ==
    segments[find_segment_by_addr(segments, addr)].mem
       [addr - segments[find_segment_by_addr(segments, addr)].start + 1]

\* a is the address of the delimiter that ends the line at pc
EndsLine(segments, pc, a) ==
    /\ find_segment_by_addr(segments, a) = find_segment_by_addr(segments, pc)
    /\ find_segment_by_addr(segments, pc) # 0
    /\ ByteAt(segments, a) = INST_DELIMITER
    /\ \A b \in pc..(a - 1) : ByteAt(segments, b) # INST_DELIMITER

\* the bytes of the line at pc, up to the delimiter at a
LineAt(segments, pc, a) == [i \in 1..(a - pc) |-> ByteAt(segments, pc + i - 1)]

\* run() calls step(), for the first time or after a step came to its end,
\* and the fetch succeeds
Fetched == task["run"].pos \in {"idle", "step_after"} /\ task'["run"].pos = "step_before"

\* the fetch puts PC after the delimiter of the line at PC: the length of the
\* line, comment and blanks included, plus 1; the instruction is that line
FetchAdvances ==
    Fetched
    => \E a \in get_program_counter(engine.regs)
                   ..(get_program_counter(engine.regs) + CodeSize) :
          /\ EndsLine(engine.segments, get_program_counter(engine.regs), a)
          /\ get_program_counter(engine'.regs)
                = to_u32(get_program_counter(engine.regs)
                            + (a - get_program_counter(engine.regs)) + 1)
          /\ task'["run"].inst.len = (a - get_program_counter(engine.regs)) + 1
          /\ task'["run"].inst.mnemonic
                = Instruction(LineAt(engine.segments,
                                     get_program_counter(engine.regs), a)).mnemonic
          /\ \A r \in REGISTERS \ {PROGRAM_COUNTER_REG_NAME} :
                engine'.regs[r] = engine.regs[r]
          /\ engine'.segments = engine.segments

\* the instruction in progress may put another address in PC: JMP, CALL,
\* RET, JZ on a zero word, JNZ on a non-zero word, EXEC of a file
MovesPC ==
    /\ task["run"].pos = "step_before"
    /\ \/ task["run"].inst.mnemonic \in {"JMP", "CALL", "RET"}
       \/ /\ task["run"].inst.mnemonic = "JZ"
          /\ StackTop(engine) = 0
       \/ /\ task["run"].inst.mnemonic = "JNZ"
          /\ StackTop(engine) # 0
       \/ /\ ExecInProgress
          /\ HasFile(engine.files, ExecName)

\* a part of a step that does not fail and is no such instruction leaves PC
\* where the fetch put it
ExecutionKeepsPC ==
    /\ task["run"].pos \in StepPositions \ {"step_after"}
    /\ task'["run"].pos \in StepPositions
    /\ ~MovesPC
    => get_program_counter(engine'.regs) = get_program_counter(engine.regs)

\* lines that are empty, blank or only a comment (32, 9, 59 and 99 are " ",
\* tab, ";" and "c")
EmptyLines ==
    {<<>>, <<32>>, <<9, 32>>, <<59>>, <<32, 59, 32, 99>>, <<59, 59, 10 + 67, 79, 86>>}

\* such a line is the instruction NOP without operands, of the length of the
\* line plus 1, and executing it leaves the engine as it is
EmptyLineIsNop ==
    \A line \in EmptyLines :
       /\ Instruction(line)
             = [err |-> "OK", mnemonic |-> "NOP", operands |-> <<>>,
                len |-> Len(line) + 1]
       /\ Execute(engine, Instruction(line)) = Ret("OK", engine, 0)

\* the execution of a fetched NOP changes nothing in the engine
NopStep ==
    (task["run"].pos = "step_before" /\ task["run"].inst.mnemonic = "NOP")
    => /\ engine' = engine
       /\ task'["run"].pos = "step_after"

\* the line at PC has a delimiter in its segment
LineDelimited ==
    \E a \in get_program_counter(engine.regs)
                ..(get_program_counter(engine.regs) + CodeSize) :
       EndsLine(engine.segments, get_program_counter(engine.regs), a)

\* the steps of a line that has its delimiter, and the steps that follow a
\* fetch
DelimitedLineAdvances ==
    [][(LineDelimited => FetchAdvances) /\ ExecutionKeepsPC /\ NopStep]_vars

(* C32: the fetch of a line puts PC at the address after its delimiter, PC  *)
(* before the step plus the length of the line (comment and blanks          *)
(* included) plus 1, reduced to a word, and changes nothing else; the       *)
(* execution that follows leaves PC there unless the instruction is JMP,    *)
(* CALL, RET, a JZ or JNZ that is taken or an EXEC that finds its file; a   *)
(* fetched NOP, which is what an empty line and a line that is only a       *)
(* comment are, changes nothing.                                            *)
PCAdvancesByLine == [][FetchAdvances /\ ExecutionKeepsPC /\ NopStep]_vars


(***************************************************************************)
(* C33: JZ and JNZ                                                         *)
(***************************************************************************)
\* targets: absolute, relative, in a register, in memory, and one that
\* cannot be evaluated
JumpTargets ==
    {Operand(Bytes(<<"0", "x", "4", "0", "0", "0", "0", "4">>)),
     Operand(Bytes(<<"+", "0">>)),
     Operand(Bytes(<<"+", "4">>)),
     Operand(Bytes(<<"-", "7">>)),
     Operand(Bytes(<<"R", "1">>)),
     Operand(Bytes(<<"[", "F", "P", "]">>)),
     Operand(Bytes(<<"P", "C">>))}

\* e after its stack pointer moved up by one word
Popped(e) ==
    [e EXCEPT !.regs[STACK_POINTER_REG_NAME] = to_u32(e.regs[STACK_POINTER_REG_NAME] + 4)]

\* JZ or JNZ on e, whose word at SP can be read: the word is popped; on a
\* zero word for JZ and a non-zero word for JNZ the outcome is that of JMP
\* to the same target after the pop, on any other word only SP has changed
ConditionalJump(e, mnemonic, target) ==
    IF (mnemonic = "JZ") = (StackTop(e) = 0)
    THEN Execute(e, Parsed(mnemonic, <<target>>))
            = Execute(Popped(e), Parsed("JMP", <<target>>))
    ELSE Execute(e, Parsed(mnemonic, <<target>>)) = Ret("OK", Popped(e), 0)

\* on every stack pointer that has a readable word, with every target
ConditionalJumps ==
    \A sp \in StackPointers : \A mnemonic \in {"JZ", "JNZ"} : \A target \in JumpTargets :
       get32(engine.segments, sp).err = "OK"
       => ConditionalJump(AtStack(sp), mnemonic, target)

\* a JZ or JNZ is in progress
JumpsOnWord ==
    /\ task["run"].pos = "step_before"
    /\ task["run"].inst.mnemonic \in {"JZ", "JNZ"}

\* the JZ or JNZ in progress has the word that makes it jump on the stack
Taken == (task["run"].inst.mnemonic = "JZ") = (StackTop(engine) = 0)

\* a JZ or JNZ that comes to its end has moved SP up by one word and no
\* other register but PC, and no byte of memory; PC is where JMP to the same
\* target would put it when the jump is taken, and where the fetch left it,
\* at the following line, when it is not
ConditionalJumpStep ==
    JumpsOnWord /\ task'["run"].pos = "step_after"
    => /\ engine'.regs[STACK_POINTER_REG_NAME]
             = to_u32(engine.regs[STACK_POINTER_REG_NAME] + 4)
       /\ \A r \in REGISTERS \ {STACK_POINTER_REG_NAME, PROGRAM_COUNTER_REG_NAME} :
             engine'.regs[r] = engine.regs[r]
       /\ engine'.segments = engine.segments
       /\ get_program_counter(engine'.regs)
             = IF Taken
               THEN get_program_counter(
                       jmp_to(Popped(engine), task["run"].inst.operands[1]).e.regs)
               ELSE get_program_counter(engine.regs)

(* C33: JZ and JNZ pop one word, SP going up by 4, whether or not they      *)
(* jump; JZ jumps iff the word is 0 and JNZ iff it is not, to the target    *)
(* JMP would go to (absolute, or relative to the following line for an      *)
(* immediate written with a sign); when the jump is not taken PC stays at   *)
(* the following line.                                                      *)
ConditionalJumpsPopOneWord == []ConditionalJumps /\ [][ConditionalJumpStep]_vars

\* run() has executed the three conditional jumps of ProgramJzJnz: the last,
\* a JNZ on a zero word, left PC at the end of the program and SP where it
\* was at boot
JumpedOnWords ==
    /\ SubSeq(engine.segments[SegmentNamed(engine.segments, "code")].mem,
              1, Len(ProgramJzJnz)) = ProgramJzJnz
    /\ task["run"].pos = "step_after"
    /\ task["run"].inst.mnemonic = "JNZ"
    /\ get_program_counter(engine.regs) = CODE_START + Len(ProgramJzJnz)
    /\ engine.regs[STACK_POINTER_REG_NAME] = StackBoot


(***************************************************************************)
(* C34: the compare instructions                                           *)
(***************************************************************************)
\* operand values: 0, 1, the greatest positive, the least negative and -1
CompareValues == {0, 1, INT32_MAX, INT32_MAX + 1, UINT32_MAX}

\* the two's-complement value of a word
Signed(u) == IF u > INT32_MAX THEN u - (UINT32_MAX + 1) ELSE u

\* what the comparison named by the mnemonic says of the words a and b
Compares(mnemonic, a, b) ==
    CASE mnemonic = "EQ" -> a = b
      [] mnemonic = "NEQ" -> a # b
      [] mnemonic = "GT" -> Signed(a) > Signed(b)
      [] mnemonic = "GTu" -> a > b
      [] mnemonic = "GTE" -> Signed(a) >= Signed(b)
      [] mnemonic = "GTEu" -> a >= b
      [] mnemonic = "LT" -> Signed(a) < Signed(b)
      [] mnemonic = "LTu" -> a < b
      [] mnemonic = "LTE" -> Signed(a) <= Signed(b)
      [] mnemonic = "LTEu" -> a <= b

\* the engine with a in R1 and b in R2
Comparing(a, b) == [engine EXCEPT !.regs["R1"] = a, !.regs["R2"] = b]

\* r is the outcome of a push of one word, bit, on e: SP is one word lower,
\* the word is at SP, no other register and no other byte has changed
PushedBit(e, r, bit) ==
    /\ r.e.regs = [e.regs EXCEPT ![STACK_POINTER_REG_NAME] = to_u32(@ - 4)]
    /\ r.e.segments = set32(e.segments, to_u32(e.regs[STACK_POINTER_REG_NAME] - 4), bit).segments
    /\ StackTop(r.e) = bit
    /\ r.e = [e EXCEPT !.regs = r.e.regs, !.segments = r.e.segments]

\* a compare of R1 and R2 that does not fail pushes 1 when the comparison
\* holds and 0 when it does not
ComparePushesBit ==
    \A mnemonic \in CompareOps : \A a \in CompareValues : \A b \in CompareValues :
       With(Execute(Comparing(a, b),
                    Parsed(mnemonic, <<OperandR1, Operand(Bytes(<<"R", "2">>))>>)),
            LAMBDA r :
            r.err = "OK"
            => PushedBit(Comparing(a, b), r, IF Compares(mnemonic, a, b) THEN 1 ELSE 0))

\* the greatest word and 1: LT pushes 1, LTu pushes 0
LtOfMinusOne ==
    \A mnemonic \in {"LT", "LTu"} :
       With(Execute(Comparing(UINT32_MAX, 1),
                    Parsed(mnemonic, <<OperandR1, Operand(Bytes(<<"R", "2">>))>>)),
            LAMBDA r :
            r.err = "OK" => StackTop(r.e) = (IF mnemonic = "LT" THEN 1 ELSE 0))

\* a compare comes to its end in run(): one word, 0 or 1, is pushed and no
\* register but SP changes (PC was advanced by the fetch)
CompareStep ==
    /\ task["run"].pos = "step_before"
    /\ task["run"].inst.mnemonic \in CompareOps
    /\ task'["run"].pos = "step_after"
    => /\ engine'.regs = [engine.regs EXCEPT ![STACK_POINTER_REG_NAME] = to_u32(@ - 4)]
       /\ StackTop(engine') \in {0, 1}
       /\ engine'.segments
             = set32(engine.segments, engine'.regs[STACK_POINTER_REG_NAME],
                     StackTop(engine')).segments

\* the program of the engine is that of scenario S3
RunsS3 ==
    SubSeq(engine.segments[SegmentNamed(engine.segments, "code")].mem,
           1, Len(ProgramS3)) = ProgramS3

\* the instructions of the ten lines of S3 and the offsets of their ends
S3Instructions == [k \in 1..10 |-> Instruction(Line(ProgramS3, k))]
S3Ends == [k \in 1..10 |-> LineEnd(ProgramS3, k)]

\* run() executes line k of S3 to its end
S3Step(k) ==
    /\ RunsS3
    /\ task["run"].pos = "step_before"
    /\ task["run"].inst = S3Instructions[k]
    /\ task'["run"].pos = "step_after"

\* LT R1, R2 compares the greatest word, -1, with 1 and pushes 1
S3Compares ==
    S3Step(3) => /\ engine.regs["R1"] = UINT32_MAX
                 /\ engine.regs["R2"] = 1
                 /\ StackTop(engine') = 1

\* JZ +3 pops the 1 and does not jump
S3Falls ==
    S3Step(4) => /\ StackTop(engine) = 1
                 /\ get_program_counter(engine'.regs) = SEGMENTS.code.start + S3Ends[4]

\* run() has returned after the EXIT syscall with the exit code 1 and no
\* error
ExitedWith1 ==
    /\ task["run"].pos = "done"
    /\ task["run"].exited
    /\ task["run"].err = "OK"
    /\ engine.state = "STOPPED"
    /\ engine.exit_code = 1

(* C34: each of EQ, NEQ, GT, GTu, GTE, GTEu, LT, LTu, LTE, LTEu that does   *)
(* not fail pushes one word, 1 when the comparison holds and 0 when it does *)
(* not, and changes no register but SP (and PC, by the fetch); GT, GTE, LT  *)
(* and LTE compare the words as two's-complement values and the u-variants *)
(* as unsigned, so for the greatest word and 1 LT pushes 1 and LTu pushes   *)
(* 0; scenario S3 ends through EXIT with the exit code 1.                   *)
ComparesPushOneBit ==
    /\ [](ComparePushesBit /\ LtOfMinusOne)
    /\ [][CompareStep /\ S3Compares /\ S3Falls]_vars
    /\ [](RunsS3 => task["run"].pos # "error")
    /\ [](RunsS3 /\ task["run"].pos = "done" => ExitedWith1)
    /\ (RunsS3 ~> ExitedWith1)

\* S3 has come to its end: the first of its two EXIT syscalls, with R1 = 1
S3Exited ==
    /\ RunsS3
    /\ ExitedWith1
    /\ engine.regs["R1"] = 1
    /\ engine.regs["R2"] = 1
    /\ engine.regs[STACK_POINTER_REG_NAME] = StackBoot


(***************************************************************************)
(* C35: removing a breakpoint                                              *)
(***************************************************************************)
\* the host's remove_breakpoint(a) has just returned: the list lost its
\* first a and nothing else changed
RemovedBreakpoint(a) ==
    /\ \E i \in 1..Len(engine.breakpoints) : engine.breakpoints[i] = a
    /\ engine' = [engine EXCEPT !.breakpoints = Remove(@, a)]
    /\ task' = task

\* run() gates at address a: the test 'pc in self.breakpoints' with PC = a
GatesAt(e, a) == \E i \in 1..Len(e.breakpoints) : e.breakpoints[i] = a

(* C35: after remove_breakpoint(a) has returned the engine does not gate at *)
(* a: a is not among the breakpoints, however many times it had been added. *)
RemovedBreakpointIsGone ==
    [][\A a \in {get_program_counter(engine.regs)} \cup
                {engine.breakpoints[i] : i \in 1..Len(engine.breakpoints)} :
          RemovedBreakpoint(a) => ~GatesAt(engine', a)]_vars


(***************************************************************************)
(* C36: a step that completes after the engine was stopped                 *)
(***************************************************************************)
\* run() calls step() and the fetch is made: an instruction is fetched, or
\* the fetch fails
FetchedByRun ==
    \/ task["run"].pos # "step_before" /\ task'["run"].pos = "step_before"
    \/ /\ task["run"].pos \in {"idle", "sleep", "step_after"} \cup GatePositions
       /\ task'["run"].pos = "error"

\* the engine is stopped while run() is in its loop: in a step, at a
\* breakpoint or asleep
StoppedInFlight == engine.state = "STOPPED" /\ task["run"].pos \notin {"idle", "done"}

\* from then on the state stays STOPPED and run() makes no fetch; the step
\* in flight, when it completes, takes run() to its return or to the gate of
\* a breakpoint
StoppedStaysStopped ==
    StoppedInFlight
    => /\ engine'.state = "STOPPED"
       /\ ~FetchedByRun
       /\ task["run"].pos = "step_after" /\ task'["run"].pos # "step_after"
          => task'["run"].pos \in {"done"} \cup GatePositions

\* the end of step() restores RUNNING from STEPPING and leaves any other
\* state as it is
FinishRestoresStepping ==
    /\ StepFinish(engine).state
          = (IF engine.state = "STEPPING" THEN "RUNNING" ELSE engine.state)
    /\ StepFinish(stop(engine)).state = "STOPPED"

(* C36: the end of a step restores RUNNING only from STEPPING: when stop()  *)
(* was called or EXIT was executed while the step was in flight, the state  *)
(* is still STOPPED when the step completes, and run() fetches no further   *)
(* instruction.                                                             *)
StoppedStepIsLast == []FinishRestoresStepping /\ [][StoppedStaysStopped]_vars

\* run() has returned after stop() was called during a step: no EXIT, no
\* error, no stop at a gate, and an instruction was executed
ReturnedAfterStopInFlight ==
    /\ task["run"].pos = "done"
    /\ ~task["run"].exited
    /\ ~task["run"].gatedStop
    /\ task["run"].err = "OK"
    /\ engine.state = "STOPPED"
    /\ engine.breakpoints = <<>>
    /\ get_program_counter(engine.regs) > SEGMENTS.code.start


(***************************************************************************)
(* C37: the code segment after EXEC                                        *)
(***************************************************************************)
\* the bytes of the code segment
CodeBytes(e) == e.segments[SegmentNamed(e.segments, "code")].mem

(* C37: after an EXEC that found its file the code segment holds the        *)
(* content of the file from its base address, followed only by zero bytes.  *)
ExecLeavesOnlyFile ==
    ExecDone
    => CodeBytes(engine)
          = [i \in 1..Len(CodeBytes(engine)) |->
               IF i <= Len(engine.files[ExecName]) THEN engine.files[ExecName][i] ELSE 0]


(***************************************************************************)
(* C38: shifts by the width of the word or more                            *)
(***************************************************************************)
\* counts of at least the bits of a word, and destination values with and
\* without the top bit
ShiftCounts == {WORD_BITS, WORD_BITS + 1, WORD_BITS + 12, 2 * WORD_BITS, BYTE_BASE}
ShiftValues == {0, 1, INT32_MAX, INT32_MAX + 1, INT32_MAX + 2, UINT32_MAX}

\* the engine with value in R1 and count in R2
Shifting(value, count) == [engine EXCEPT !.regs["R1"] = value, !.regs["R2"] = count]

\* a count of two or three digits written in decimal (48 is "0")
Decimal(count) ==
    IF count < 100 THEN <<48 + (count \div 10), 48 + (count % 10)>>
    ELSE <<48 + (count \div 100), 48 + ((count \div 10) % 10), 48 + (count % 10)>>

\* the outcomes of mnemonic R1, R2 and of mnemonic R1, count on that engine
ShiftOutcomes(mnemonic, value, count) ==
    {Execute(Shifting(value, count),
             Parsed(mnemonic, <<OperandR1, Operand(Bytes(<<"R", "2">>))>>)),
     Execute(Shifting(value, count),
             Parsed(mnemonic, <<OperandR1,
                                Operand(Decimal(count))>>))}

\* the shift succeeded and left word in R1, nothing else changed
ShiftedTo(value, count, r, word) ==
    r = Ret("OK", [Shifting(value, count) EXCEPT !.regs["R1"] = word], 0)

(* C38 as stated: SAL, SHL, SHR and SAR by a count of the width of the word *)
(* or more leave 0 in the destination, whatever its value.                  *)
LargeShiftsGiveZero ==
    \A mnemonic \in {"SAL", "SHL", "SHR", "SAR"} :
       \A value \in ShiftValues : \A count \in ShiftCounts :
          \A r \in ShiftOutcomes(mnemonic, value, count) :
             ShiftedTo(value, count, r, 0)

\* SAL, SHL and SHR by such a count leave 0; SAR leaves 0 in a destination
\* whose top bit is clear and the word of all ones in one whose top bit is set
LargeShifts ==
    \A mnemonic \in {"SAL", "SHL", "SHR", "SAR"} :
       \A value \in ShiftValues : \A count \in ShiftCounts :
          \A r \in ShiftOutcomes(mnemonic, value, count) :
             ShiftedTo(value, count, r,
                       IF mnemonic = "SAR" /\ value > INT32_MAX THEN UINT32_MAX ELSE 0)

\* a SAL, SHL, SHR or SAR of run() whose count is a register or an immediate
\* of at least the width of the word
LargeShiftStep ==
    /\ task["run"].pos = "step_before"
    /\ task["run"].inst.mnemonic \in {"SAL", "SHL", "SHR", "SAR"}
    /\ Len(task["run"].inst.operands) = 2
    /\ OperandType(task["run"].inst, 0) = "REGISTER"
    /\ OperandType(task["run"].inst, 1) # "ADDRESS"
    /\ EvalOperand(engine, task["run"].inst, 1).err = "OK"
    /\ EvalOperand(engine, task["run"].inst, 1).val >= WORD_BITS

\* such a step leaves 0 or, for SAR of a word with the top bit, all ones
LargeShiftResult ==
    LargeShiftStep
    => /\ task'["run"].pos = "step_after"
       /\ engine'.regs[Str(task["run"].inst.operands[1].data)]
             = (IF /\ task["run"].inst.mnemonic = "SAR"
                   /\ engine.regs[Str(task["run"].inst.operands[1].data)] > INT32_MAX
                THEN UINT32_MAX ELSE 0)

(* C38: shift counts are used as they are, never reduced modulo the width   *)
(* of the word: SAL, SHL and SHR by a count of the width or more leave 0 in *)
(* the destination for every value; SAR by such a count leaves 0 when the   *)
(* top bit of the destination is clear and the word of all ones when it is  *)
(* set.                                                                     *)
LargeShiftsFillWithSign == []LargeShifts /\ [][LargeShiftResult]_vars

\* run() has executed ProgramShifts: SAR by 40 left all ones in R1, SHR by 40
\* left 0 in R2
ShiftedByForty ==
    /\ task["run"].pos = "step_after"
    /\ task["run"].inst.mnemonic = "SHR"
    /\ engine.regs["R1"] = UINT32_MAX
    /\ engine.regs["R2"] = 0
    /\ get_program_counter(engine.regs) = CODE_START + Len(ProgramShifts)


(***************************************************************************)
(* C39: the bytes of the code segment                                      *)
(***************************************************************************)
\* addresses of the code segment: its first byte, its last word, its last
\* byte
CodeProbes ==
    {SEGMENTS.code.start,
     SEGMENTS.code.start + SEGMENTS.code.size - 4,
     SEGMENTS.code.start + SEGMENTS.code.size - 1}

\* the engine with a in R2 and sp in SP
Pointing(a, sp) ==
    [engine EXCEPT !.regs["R2"] = a, !.regs[STACK_POINTER_REG_NAME] = to_u32(sp)]

\* operand lists with [R2] as destination, as only operand and as source
CodeOperands ==
    {<<Operand(Bytes(<<"[", "R", "2", "]">>)), OperandR1>>,
     <<Operand(Bytes(<<"[", "R", "2", "]">>))>>,
     <<OperandR1, Operand(Bytes(<<"[", "R", "2", "]">>))>>,
     <<Operand(Bytes(<<"[", "R", "2", "+", "1", "]">>)), Operand(Bytes(<<"7">>))>>,
     <<OperandR1, Operand(Bytes(<<"R", "3">>))>>}

\* no instruction other than SYSCALL, with R2 at an address of the code
\* segment and SP one word above it or where the code left it, changes a
\* byte of the code segment, whether it fails or not
InstructionsKeepCode ==
    \A a \in CodeProbes : \A sp \in {a + 4, engine.regs[STACK_POINTER_REG_NAME]} :
       \A mnemonic \in MNEMONIC \ {"SYSCALL"} : \A operands \in CodeOperands :
          CodeBytes(Execute(Pointing(a, sp), Parsed(mnemonic, operands)).e)
             = CodeBytes(engine)

\* READFILE into the code segment, and the copy INPUT makes of what it
\* read, change no byte of it
SyscallsKeepCode ==
    \A buf \in CodeProbes :
       /\ \A name \in ReadNames : \A length \in {0, 2, 3} :
             CodeBytes(syscall_readfile(engine, name, buf, length).e) = CodeBytes(engine)
       /\ \A k \in 0..Len(STDIN) :
             MemorySet(engine.segments, buf, buf + k, SubSeq(STDIN, 1, k))
                = [err |-> "SEG_FAULT", segments |-> engine.segments]

\* a step changes a byte of the code segment only when it is an EXEC that
\* finds its file, which loads the content over the start of the segment
CodeChangesInExec ==
    CodeBytes(engine') # CodeBytes(engine)
    => /\ ExecInProgress
       /\ HasFile(engine.files, ExecName)
       /\ engine'.segments = Loaded(engine.segments, engine.files[ExecName])

(* C39: the program cannot modify itself: the bytes of the code segment are *)
(* those placed there at boot or by the last EXEC that found its file; no   *)
(* instruction and no other syscall writes a byte of the code segment,      *)
(* whatever SP and the address registers hold.                              *)
CodeIsNeverWritten ==
    /\ [](InstructionsKeepCode /\ SyscallsKeepCode)
    /\ [][CodeChangesInExec]_vars

\* a PUSH with SP in the code segment has failed with SEG_FAULT; the code
\* segment is as it was loaded
PushToCodeFaulted ==
    /\ task["run"].pos = "error"
    /\ task["run"].err = "SEG_FAULT"
    /\ task["run"].inst.mnemonic = "PUSH"
    /\ engine.regs[STACK_POINTER_REG_NAME] = CODE_START + 4
    /\ CodeBytes(engine) = CodeBytes(Boot(ProgramPushCode))

====
